---- MODULE Spec2Model ----
(***************************************************************************)
(* Multi-device metronome: the signalling relay (pages/api/group-code.ts), *)
(* the group coordinator (GroupProvider), the peer mesh (PeerProvider,     *)
(* PeerConnectionsProvider), the clock orchestration (ClockProvider) and   *)
(* the playback-state replication (MetronomeStateProvider,                 *)
(* MetronomeStateSync).                                                    *)
(*                                                                         *)
(* A client instance c is one mounted component tree: one PeerJS peer with *)
(* id pid(c) and one relay websocket.  Two instances may carry the same    *)
(* peer id (a remount that keeps the peer but opens a new websocket).      *)
(*                                                                         *)
(* Spec          relay + group coordinators                                *)
(* SpecRelay     the relay under arbitrary socket events                   *)
(* SpecMesh      relay + coordinators + peer mesh over a reliable          *)
(*               transport                                                 *)
(* SpecMeshFair  SpecMesh with weak fairness of every step                 *)
(* SpecClock     relay + coordinators + clock orchestration, the mesh as   *)
(*               its environment                                           *)
(* SpecMigrate   SpecClock for three devices in one group, one of which    *)
(*               may leave                                                 *)
(* SpecPlay      relay + coordinators + playback replication over a        *)
(*               reliable, complete mesh, no failures                      *)
(* SpecPlayFair  SpecPlay with weak fairness of every step but the edits   *)
(* SpecPlayLoss  SpecPlay where a client may lose its relay websocket      *)
(* SpecSend      SpecMesh ended by one call of send()                      *)
(* SpecReconcile SpecMesh with a third member that answers no dial         *)
(* SpecResample  relay + coordinators + mesh + clock orchestration, no     *)
(*               failure, weak fairness of every step                      *)
(* SpecTiming    the timing functions on arguments from small sets         *)
(* SpecRoute     the data handler and the subscriber lists of one peer     *)
(***************************************************************************)
EXTENDS Integers, Sequences, FiniteSets, TLC

\* ---------------------------------------------------------------- bounds
\* peer ids the relay can be sent, relay websockets, group codes, client
\* instances, devices
NumPeers == 3
NumSockets == 3
NumCodes == 2
NumClients == 2
NumDevices == 2
\* data connections dialed in one run
MaxConns == 3
\* the offsets a resample can measure: 0..MaxOffset
MaxOffset == 1
\* local edits in one run, reference times the scheduler can compute: 1..MaxRef
MaxEdits == 2
MaxRef == 2
\* the manual offsets a user can set: 0..MaxManual; wall-clock readings:
\* 0..MaxWall
MaxManual == 1
MaxWall == 2
\* sockets that close in a run of SpecMigrate
MaxLeaves == 1
\* numbers are binary floating point: Precision significant bits, on a grid of
\* 2^-FractionBits (IEEE doubles have 53 significant bits)
Precision == 13
FractionBits == 16
\* the whole measures a reference time may be off by
MaxMeasures == 4
\* the default state of the initial-state $effect
DefaultBpm == 120
DefaultTimeSignature == <<4, 4>>

Peers == 1..NumPeers
Sockets == 1..NumSockets
Codes == 1..NumCodes

\* client instance c owns relay websocket c
Clients == 1..NumClients

\* the devices of the mesh: client instances with distinct peers, pid(d) = d
Devices == 1..NumDevices
ConnIds == 1..MaxConns
OffsetValues == 0..MaxOffset
RefTimes == 1..MaxRef
ManualOffsets == 0..MaxManual
WallClocks == 0..MaxWall
\* the bpm values of the edits: the number input, and the -1 / -5 buttons, which
\* have no lower limit (the -5 button pressed 25 times from the default)
Bpms == {DefaultBpm, DefaultBpm + 1, DefaultBpm - 125}
TimeSignatures == {DefaultTimeSignature, <<3, 4>>}
Links == {l \in Devices \X Devices : l[1] # l[2]}

\* "" / undefined for a peer id or a group code
None == 0

\* peer.id of client instance c: instances beyond NumDevices are remounts that
\* keep the peer of an earlier instance
pid(c) == ((c - 1) % NumPeers) + 1

\* ---------------------------------------------------------------- helpers
Range(s) == {s[i] : i \in 1..Len(s)}

RECURSIVE SeqWithout(_, _)
SeqWithout(s, x) ==
    IF s = <<>> THEN <<>>
    ELSE IF Head(s) = x THEN SeqWithout(Tail(s), x)
    ELSE <<Head(s)>> \o SeqWithout(Tail(s), x)

\* Set.add on an insertion-ordered Set
SetAdd(s, x) == IF x \in Range(s) THEN s ELSE Append(s, x)

MapSet(f, k, v) == [x \in (DOMAIN f) \cup {k} |-> IF x = k THEN v ELSE f[x]]
MapDelete(f, k) == [x \in (DOMAIN f) \ {k} |-> f[x]]
EmptyMap == [x \in {} |-> None]

\* ---------------------------------------------------------------- state
VARIABLES
    groups,         \* relay: groupCode -> [members, leader]
    clients,        \* relay: peerID -> websocket (client instance)
    memberToGroup,  \* relay: peerID -> groupCode
    sockPeerId,     \* relay: the handler closure's peerId of each socket
    sockGroupCode,  \* relay: the handler closure's groupCode of each socket
    srv,            \* relay side of each websocket: "none" | "open" | "errored" | "closed"
    sent,           \* the socket.send calls of the relay's latest handler
    registered,     \* history: the register message a socket was given (SpecRelay)
    toServer,       \* register messages in flight, client -> relay
    inbox,          \* groupUpdate messages in flight, relay -> client
    ws,             \* client side of each websocket: "connecting" | "open" | "closed"
    websocketOpen,  \* GroupProvider.websocketOpen
    groupState,     \* GroupProvider.groupState
    peerConnected,  \* Status.peerConnected  ("undefined" | "true" | "false")
    serverConnected, \* Status.serverConnected
    conn,           \* mesh: the data connections dialed so far, both ends
    pcs,            \* mesh: peer.connections of each device, in creation order
    avail,          \* mesh: PeerContext.availableConnections
    live,           \* mesh: PeerConnectionsContext.live
    timer,          \* mesh: the pending 200 ms timeout and the value it will store
    sendOutcome,    \* history: the latest send() call and what it did (SpecSend)
    syncOffset,     \* clock: Clock.syncOffset
    tsOffset,       \* clock: the offset inside clock.ts, which ts.now() adds
    manualOffset,   \* clock: Clock.manualOffset
    synced,         \* clock: Clock.synced
    syncing,        \* clock: Clock.syncing
    tsPeers,        \* clock: clock.ts.options.peers
    syncInterval,   \* clock: the 60 s interval has been set
    sampling,       \* clock: the peers of the ts.sync() round in flight
    sampled,        \* history: the peers of the latest ts.sync() round started,
                    \* and how it ended
    metronomeState, \* playback: the MetronomeState replica of each device
    lastKnownState, \* playback: lastKnownState of MetronomeStateSync
    audioKnown,     \* playback: lastKnownState of Audio (without referenceTime)
    audioPending,   \* playback: an updatePlaybackWithState call has yet to finish
    hasUserInteracted, \* Status.hasUserInteracted
    chan,           \* peer messages in flight, per ordered pair of devices
    edits,          \* number of local edits so far
    lastBroadcast,  \* history: the state carried by the latest broadcast
    lastReceived,   \* history: per device, the latest remote state handled and
                    \* the replica it met
    timing,         \* the arguments and results of the timing functions (SpecTiming)
    subscribers,    \* PeerContext.#subscribers: topic -> callbacks (SpecRoute)
    routed          \* history: the latest data event and the notify() it led to

relayVars == <<groups, clients, memberToGroup, sockPeerId, sockGroupCode, srv, sent,
               registered>>
wireVars == <<toServer, inbox>>
groupVars == <<ws, websocketOpen, groupState, peerConnected, serverConnected>>
meshVars == <<conn, pcs, avail, live, timer>>
\* the layers above the group coordinator
clockVars == <<syncOffset, tsOffset, manualOffset, synced, syncing, tsPeers,
               syncInterval, sampling, sampled>>
\* the layers above the mesh
playVars == <<metronomeState, lastKnownState, audioKnown, audioPending,
              hasUserInteracted, chan, edits, lastBroadcast, lastReceived>>
aboveMesh == <<clockVars, playVars, sendOutcome, timing, subscribers, routed>>
upperVars == <<meshVars, aboveMesh>>
vars == <<relayVars, wireVars, groupVars, upperVars>>

\* ---------------------------------------------------------------- relay
RelayState == [groups |-> groups, clients |-> clients, memberToGroup |-> memberToGroup]

\* (mutant) a group that exists under the code is joined, not replaced
createGroupJoined(R, code, leaderId) ==
    IF code \in DOMAIN R.groups
    THEN [R EXCEPT !.groups = [R.groups EXCEPT ![code].members = SetAdd(@, leaderId)],
                   !.memberToGroup = MapSet(R.memberToGroup, leaderId, code)]
    ELSE [R EXCEPT !.groups = MapSet(R.groups, code,
                                [members |-> <<leaderId>>, leader |-> leaderId]),
                   !.memberToGroup = MapSet(R.memberToGroup, leaderId, code)]

createGroup(R, code, leaderId) ==
    [R EXCEPT !.groups = MapSet(R.groups, code,
                                [members |-> <<leaderId>>, leader |-> leaderId]),
              !.memberToGroup = MapSet(R.memberToGroup, leaderId, code)]

addMemberToGroup(R, code, peerId) ==
    IF code \notin DOMAIN R.groups THEN R
    ELSE [R EXCEPT !.groups = [R.groups EXCEPT ![code].members = SetAdd(@, peerId)],
                   !.memberToGroup = MapSet(R.memberToGroup, peerId, code)]


\* (mutant) the leader is not reassigned when it leaves
newLeaderKept(group, remaining, peerId) == group.leader

\* the leader removeMemberFromGroup leaves a non-empty group with
newLeaderAfterRemoval(group, remaining, peerId) ==
    IF group.leader = peerId THEN Head(remaining) ELSE group.leader

removeMemberFromGroup(R, peerId) ==
    IF peerId \notin DOMAIN R.memberToGroup THEN R
    ELSE LET groupCode == R.memberToGroup[peerId] IN
         IF groupCode \notin DOMAIN R.groups THEN R
         ELSE LET group == R.groups[groupCode]
                  remaining == SeqWithout(group.members, peerId)
              IN IF remaining = <<>>
                 THEN [R EXCEPT !.groups = MapDelete(R.groups, groupCode),
                                !.memberToGroup = MapDelete(R.memberToGroup, peerId)]
                 ELSE [R EXCEPT !.groups = MapSet(R.groups, groupCode,
                                    [members |-> remaining,
                                     leader |-> newLeaderAfterRemoval(group, remaining, peerId)]),
                                !.memberToGroup = MapDelete(R.memberToGroup, peerId)]

groupUpdate(code, group) ==
    [groupCode |-> code, members |-> group.members, leader |-> group.leader]

\* the sockets broadcastToGroup sends to: every member with an OPEN client socket
broadcastTargets(R, group, srvState) ==
    {R.clients[p] : p \in {q \in Range(group.members) :
                              q \in DOMAIN R.clients /\ srvState[R.clients[q]] = "open"}}

\* broadcastGroupUpdate: the set of <<socket, message>> sends
broadcastGroupUpdate(R, groupCode, srvState) ==
    IF groupCode \notin DOMAIN R.groups THEN {}
    ELSE {<<s, groupUpdate(groupCode, R.groups[groupCode])>> :
              s \in broadcastTargets(R, R.groups[groupCode], srvState)}

\* generateGroupCode with up to 10 redraws: a code not in use, or, when every
\* draw collided, a code in use
generatedCodes(R) ==
    {c \in Codes : c \notin DOMAIN R.groups} \cup
    {c \in Codes : c \in DOMAIN R.groups}

\* socket.onmessage, message.type === "register"
RelayOnMessage(s, message) ==
    /\ srv[s] = "open"
    /\ LET peerId == message.peerId
           R0 == [RelayState EXCEPT !.clients = MapSet(clients, peerId, s)]
       IN \E newCode \in generatedCodes(R0) :
            LET code == IF message.groupCode # None THEN message.groupCode ELSE newCode
                R1 == IF message.groupCode # None /\ code \in DOMAIN R0.groups
                      THEN addMemberToGroup(R0, code, peerId)
                      ELSE createGroup(R0, code, peerId)
            IN /\ message.groupCode # None => newCode = message.groupCode
               /\ groups' = R1.groups
               /\ clients' = R1.clients
               /\ memberToGroup' = R1.memberToGroup
               /\ sockPeerId' = [sockPeerId EXCEPT ![s] = peerId]
               /\ sockGroupCode' = [sockGroupCode EXCEPT ![s] = code]
               /\ sent' = broadcastGroupUpdate(R1, code, srv)
    /\ UNCHANGED srv

\* the body shared by socket.onclose and socket.onerror
RelayDrop(s) ==
    LET peerId == sockPeerId[s]
        R1 == removeMemberFromGroup(RelayState, peerId)
        R2 == [R1 EXCEPT !.clients = MapDelete(R1.clients, peerId)]
    IN /\ groups' = R2.groups
       /\ clients' = R2.clients
       /\ memberToGroup' = R2.memberToGroup
       /\ sent' = broadcastGroupUpdate(R2, sockGroupCode[s], srv')
       /\ UNCHANGED <<sockPeerId, sockGroupCode, registered>>

\* socket.onclose
RelayOnClose(s) ==
    /\ srv[s] \in {"open", "errored"}
    /\ srv' = [srv EXCEPT ![s] = "closed"]
    /\ RelayDrop(s)

\* socket.onerror (its close event follows)
RelayOnError(s) ==
    /\ srv[s] = "open"
    /\ srv' = [srv EXCEPT ![s] = "errored"]
    /\ RelayDrop(s)

\* GET: upgradeWebSocket, a new socket with its handlers
RelayUpgrade(s) ==
    /\ srv[s] = "none"
    /\ srv' = [srv EXCEPT ![s] = "open"]
    /\ UNCHANGED <<groups, clients, memberToGroup, sockPeerId, sockGroupCode, sent,
                   registered>>

\* ---------------------------------------------------------------- group coordinator
readyForRegister(c, wo, pc) == wo[c] /\ pc[c] = "true"

\* $effect (register): runs when readyForRegister turns true; the code sent is
\* the URL parameter or the stored code, or none
RegisterEffect(c) ==
    IF readyForRegister(c, websocketOpen', peerConnected')
       /\ ~readyForRegister(c, websocketOpen, peerConnected)
       /\ ws'[c] = "open"
    THEN \E code \in Codes \cup {None} :
            toServer' = [toServer EXCEPT ![c] =
                            Append(@, [peerId |-> pid(c), groupCode |-> code])]
    ELSE toServer' = toServer

\* websocket.onopen
WsOnOpen(c) ==
    /\ ws[c] = "connecting"
    /\ ws' = [ws EXCEPT ![c] = "open"]
    /\ websocketOpen' = [websocketOpen EXCEPT ![c] = TRUE]
    /\ UNCHANGED <<peerConnected, groupState, serverConnected>>
    /\ RegisterEffect(c)

\* peer.on("open")
PeerOnOpen(c) ==
    /\ peerConnected[c] = "undefined"
    /\ peerConnected' = [peerConnected EXCEPT ![c] = "true"]
    /\ UNCHANGED <<ws, websocketOpen, groupState, serverConnected>>
    /\ RegisterEffect(c)

\* peer.on("disconnected")
PeerOnDisconnected(c) ==
    /\ peerConnected[c] = "true"
    /\ peerConnected' = [peerConnected EXCEPT ![c] = "false"]
    /\ UNCHANGED <<ws, websocketOpen, groupState, serverConnected, toServer>>

\* (mutant) every client that is told of a leader takes itself for it
isGroupLeaderAny(message, c) == message.leader # None

isGroupLeaderOf(message, c) == message.leader = pid(c)

\* websocket.onmessage, message.type === "groupUpdate"
GroupOnMessage(c, message) ==
    /\ ws[c] = "open"
    /\ groupState' = [groupState EXCEPT ![c] =
            [groupCode |-> message.groupCode,
             leader |-> message.leader,
             members |-> message.members,
             isGroupLeader |-> isGroupLeaderOf(message, c)]]
    /\ serverConnected' = [serverConnected EXCEPT ![c] = "true"]
    /\ UNCHANGED <<ws, websocketOpen, peerConnected, toServer>>

\* websocket.onclose
GroupOnClose(c) ==
    /\ ws[c] \in {"connecting", "open"}
    /\ ws' = [ws EXCEPT ![c] = "closed"]
    /\ serverConnected' = [serverConnected EXCEPT ![c] = "false"]
    /\ UNCHANGED <<websocketOpen, peerConnected, groupState, toServer>>

\* ---------------------------------------------------------------- the wire
\* relay -> client: the sends of a relay handler join the clients' queues; what is
\* sent to a client whose end has closed is lost
Deliver(sends) ==
    [s \in Sockets |-> IF ws[s] # "closed" /\ \E m \in sends : m[1] = s
                       THEN Append(inbox[s], (CHOOSE m \in sends : m[1] = s)[2])
                       ELSE inbox[s]]

\* ---------------------------------------------------------------- status
\* Status.connected: undefined until both flags are known
connectedOf(sc, pc) ==
    IF sc = "undefined" \/ pc = "undefined" THEN "undefined"
    ELSE IF sc = "true" /\ pc = "true" THEN "true" ELSE "false"

connected(c) == connectedOf(serverConnected[c], peerConnected[c])

\* ---------------------------------------------------------------- peer mesh
\* A data connection k is dialed by conn[k].from to conn[k].to.  Its two ends are
\* two DataConnection objects: ea at the dialer ("new" | "open" | "closed") and
\* eb at the dialed peer ("none" until the offer arrives); listening tells that
\* setupConnectionListeners has been called on the dialed peer's end.
FreeConn == [from |-> None, to |-> None, ea |-> "none", eb |-> "none",
             listening |-> FALSE]

MeshState == [conn |-> conn, pcs |-> pcs, avail |-> avail]

\* conn.peer and conn.open of the end of k that device d holds
connPeer(M, k, d) == IF M.conn[k].from = d THEN M.conn[k].to ELSE M.conn[k].from
connOpen(M, k, d) ==
    IF M.conn[k].from = d THEN M.conn[k].ea = "open" ELSE M.conn[k].eb = "open"

\* the listeners of setupConnectionListeners are attached to inbound ends only
hasListeners(M, k, d) == M.conn[k].to = d /\ M.conn[k].listening

\* Object.keys(getOpenConnections(peer))
getPeersWithConnections(M, d) ==
    {connPeer(M, k, d) : k \in {j \in Range(M.pcs[d]) : connOpen(M, j, d)}}

\* the end of k at d stops being open and leaves peer.connections
endClosed(M, k, d) ==
    [M EXCEPT !.conn[k] = IF M.conn[k].from = d THEN [@ EXCEPT !.ea = "closed"]
                          ELSE [@ EXCEPT !.eb = "closed"],
              !.pcs[d] = SeqWithout(@, k)]

\* conn.on("close")
onConnClose(M, k, d) ==
    IF hasListeners(M, k, d)
    THEN [M EXCEPT !.avail[d] = getPeersWithConnections(M, d)]
    ELSE M

\* conn.on("open")
onConnOpen(M, k, d) ==
    IF hasListeners(M, k, d)
    THEN [M EXCEPT !.avail[d] = @ \cup {connPeer(M, k, d)}]
    ELSE M

\* conn.close() on an open connection: the close event is emitted synchronously
closeConn(M, k, d) == onConnClose(endClosed(M, k, d), k, d)

RECURSIVE closeAll(_, _, _)
closeAll(M, ks, d) ==
    IF ks = <<>> THEN M ELSE closeAll(closeConn(M, Head(ks), d), Tail(ks), d)

freeIds(M) == {k \in ConnIds : M.conn[k].from = None}

\* peer.instance.connect(target): a new outbound DataConnection, no listeners
connect(M, d, target) ==
    LET k == CHOOSE j \in freeIds(M) : \A i \in freeIds(M) : j <= i
    IN [M EXCEPT !.conn[k] = [from |-> d, to |-> target, ea |-> "new", eb |-> "none",
                              listening |-> FALSE],
                 !.pcs[d] = Append(@, k)]

RECURSIVE connectAll(_, _, _)
connectAll(M, d, ts) ==
    IF ts = <<>> THEN M ELSE connectAll(connect(M, d, Head(ts)), d, Tail(ts))

\* no send() call yet
NoSend == [from |-> None, target |-> None, error |-> FALSE, on |-> {}]

\* allConnections[target]: the connections of d with the target, oldest first
connectionsTo(M, d, target) ==
    SelectSeq(M.pcs[d], LAMBDA k : connPeer(M, k, d) = target)

\* (mutant) send() transmits on every open connection with the target
sendOnAll(M, d, target) ==
    LET open == SelectSeq(connectionsTo(M, d, target), LAMBDA k : connOpen(M, k, d))
    IN IF open = <<>>
       THEN [from |-> d, target |-> target, error |-> TRUE, on |-> {}]
       ELSE [from |-> d, target |-> target, error |-> FALSE, on |-> Range(open)]

\* send(): throws unless find() gives an open connection with the target, else
\* conn.send(data) on the first one; on is the set of connections written to
send(M, d, target) ==
    LET open == SelectSeq(connectionsTo(M, d, target), LAMBDA k : connOpen(M, k, d))
    IN IF open = <<>>
       THEN [from |-> d, target |-> target, error |-> TRUE, on |-> {}]
       ELSE [from |-> d, target |-> target, error |-> FALSE, on |-> {Head(open)}]

\* a caller on device d sends a message to a member of the group
PeerSend(d, target) ==
    /\ sendOutcome = NoSend
    /\ target # pid(d)
    /\ sendOutcome' = send(MeshState, d, target)
    /\ UNCHANGED <<conn, pcs, avail, live, timer>>

\* (mutant) the filter of "Disconnect unnecessary connections" lets no id through
unnecessaryNever(targets, id) == FALSE

\* "Disconnect unnecessary connections": the filter on the remote id
unnecessary(targets, id) == id \notin Range(targets)

\* the targets syncConnections dials: not itself, no open connection
dialTargets(M, d, targets) ==
    SelectSeq(targets, LAMBDA t : t # pid(d) /\ t \notin getPeersWithConnections(M, d))

syncConnections(M, d, targets) ==
    LET toClose == SelectSeq(M.pcs[d], LAMBDA k : /\ unnecessary(targets, connPeer(M, k, d))
                                                  /\ connOpen(M, k, d))
        M1 == closeAll(M, toClose, d)
    IN connectAll(M1, d, dialTargets(M1, d, targets))

\* the dials of syncConnections fit the bound on connections
canSync(M, d, targets) == Len(dialTargets(M, d, targets)) <= Cardinality(freeIds(M))

\* allConnected of the live debounce $effect, as the value the timeout stores
allConnected(members, self, av) ==
    IF \A id \in Range(members) \ {self} : id \in av THEN "true" ELSE "false"

\* the live debounce $effect reads availableConnections only inside every()
availIsDependency(c) ==
    connected(c) = "true" /\ Range(groupState[c].members) \ {pid(c)} # {}

\* The two $effects of PeerConnectionsProvider after a handler of device c has
\* changed Status or assigned groupState (assigned): both rerun when
\* status.connected has changed, or when members was assigned and their last run
\* has read it.
MeshReact(c, assigned) ==
    LET before == connected(c)
        after == connectedOf(serverConnected'[c], peerConnected'[c])
        rerun == after # before \/ (assigned /\ before = "true")
        targets == groupState'[c].members
        M1 == IF rerun /\ after = "true"
              THEN syncConnections(MeshState, c, targets) ELSE MeshState
    IN /\ (rerun /\ after = "true") => canSync(MeshState, c, targets)
       /\ conn' = M1.conn
       /\ pcs' = M1.pcs
       /\ avail' = M1.avail
       /\ live' = IF rerun THEN [live EXCEPT ![c] = FALSE] ELSE live
       /\ timer' = IF rerun
                   THEN [timer EXCEPT ![c] =
                            IF after = "true"
                            THEN allConnected(targets, pid(c), M1.avail[c])
                            ELSE "none"]
                   ELSE timer

\* the live debounce $effect after availableConnections of device d has changed
DebounceReact(d) ==
    timer' = IF availIsDependency(d)
             THEN [timer EXCEPT ![d] =
                      allConnected(groupState[d].members, pid(d), avail'[d])]
             ELSE timer

\* (mutant) an inbound dial from a peer that is being dialed is closed
onConnectionRejectGlare(M, k, d) ==
    IF \E j \in Range(M.pcs[d]) : M.conn[j].from = d /\ M.conn[j].to = M.conn[k].from
    THEN endClosed(M, k, d)
    ELSE [M EXCEPT !.conn[k].listening = TRUE]

\* peer.on("connection"): every inbound connection gets the listeners
onConnection(M, k, d) == [M EXCEPT !.conn[k].listening = TRUE]

\* the offer of dial k reaches the dialed peer, whose "connection" handler has
\* been registered by peer.on("open")
OfferArrives(k) ==
    /\ conn[k].from # None
    /\ conn[k].ea = "new"
    /\ conn[k].eb = "none"
    /\ conn[k].to \in Devices
    /\ peerConnected[conn[k].to] = "true"
    /\ LET d == conn[k].to
           M0 == [MeshState EXCEPT !.conn[k].eb = "new", !.pcs[d] = Append(@, k)]
           M1 == onConnection(M0, k, d)
       IN /\ conn' = M1.conn
          /\ pcs' = M1.pcs
          /\ avail' = M1.avail
    /\ UNCHANGED <<live, timer>>

\* the data channel of k opens at the end held by d
ConnOpens(k, d) ==
    /\ d \in {conn[k].from, conn[k].to}
    /\ IF conn[k].from = d
       THEN conn[k].ea = "new" /\ conn[k].eb \in {"new", "open"}
       ELSE conn[k].eb = "new" /\ conn[k].ea \in {"new", "open"}
    /\ LET M0 == [MeshState EXCEPT !.conn[k] =
                     IF conn[k].from = d THEN [@ EXCEPT !.ea = "open"]
                     ELSE [@ EXCEPT !.eb = "open"]]
           M1 == onConnOpen(M0, k, d)
       IN /\ conn' = M1.conn
          /\ pcs' = M1.pcs
          /\ avail' = M1.avail
    /\ IF hasListeners(MeshState, k, d) THEN DebounceReact(d) ELSE timer' = timer
    /\ UNCHANGED live

\* the other end of k has been closed: the end held by d closes
ConnCloses(k, d) ==
    /\ d \in {conn[k].from, conn[k].to}
    /\ IF conn[k].from = d
       THEN conn[k].eb = "closed" /\ conn[k].ea \in {"new", "open"}
       ELSE conn[k].ea = "closed" /\ conn[k].eb \in {"new", "open"}
    /\ LET wasOpen == connOpen(MeshState, k, d)
           M0 == endClosed(MeshState, k, d)
           M1 == IF wasOpen THEN onConnClose(M0, k, d) ELSE M0
       IN /\ conn' = M1.conn
          /\ pcs' = M1.pcs
          /\ avail' = M1.avail
          /\ IF wasOpen /\ hasListeners(MeshState, k, d)
             THEN DebounceReact(d) ELSE timer' = timer
    /\ UNCHANGED live

\* the 200 ms timeout of the live debounce $effect fires
LiveTimeout(d) ==
    /\ timer[d] # "none"
    /\ live' = [live EXCEPT ![d] = (timer[d] = "true")]
    /\ timer' = [timer EXCEPT ![d] = "none"]
    /\ UNCHANGED <<conn, pcs, avail>>

\* ---------------------------------------------------------------- clock
ClockState == [syncOffset |-> syncOffset, synced |-> synced, syncing |-> syncing,
               tsPeers |-> tsPeers, syncInterval |-> syncInterval,
               sampling |-> sampling, sampled |-> sampled,
               tsOffset |-> tsOffset, manualOffset |-> manualOffset]

Idle == [active |-> FALSE, peers |-> <<>>]

\* (mutant) sync() does not look at live
canResampleNotLive(isConnected, isLive) == isConnected = "true"

\* the check of sync(): it returns unless connected and live
canResample(isConnected, isLive) == isConnected = "true" /\ isLive

\* sync() of the orchestration $effect: ts.sync() unless not connected or not
\* live; ts.sync() emits "sync" "start" and samples the peers set at that moment
sync(C, d, isConnected, isLive) ==
    IF ~canResample(isConnected, isLive) THEN C
    ELSE [C EXCEPT !.syncing[d] = TRUE,
                   !.sampling[d] = [active |-> TRUE, peers |-> C.tsPeers[d]],
                   !.sampled[d] = [peers |-> C.tsPeers[d], ended |-> "none"]]

\* (mutant) the leader branch leaves the peers as they were
peersAsLeaderKept(old) == old

\* clock.ts.options.peers = [] of the leader branch
peersAsLeader(old) == <<>>

\* (mutant) the follower branch leaves the peers as they were
peersAsFollowerKept(old, leader) == old

\* clock.ts.options.peers = [groupState.leader] of the follower branch
peersAsFollower(old, leader) == <<leader>>

\* (mutant) the leader branch leaves synced as it was
syncedAsLeaderKept(old) == old

\* clock.synced = true of the leader branch
syncedAsLeader(old) == TRUE

\* the orchestration $effect of ClockProvider, run for GroupState gs
clockEffect(C, d, gs, isConnected, isLive) ==
    IF gs.isGroupLeader
    THEN [C EXCEPT !.tsPeers[d] = peersAsLeader(@),
                   !.synced[d] = syncedAsLeader(@)]
    ELSE LET C1 == [C EXCEPT !.tsPeers[d] = peersAsFollower(@, gs.leader)]
         IN IF ~C1.syncInterval[d] /\ isConnected = "true" /\ isLive
            THEN [sync(C1, d, isConnected, isLive) EXCEPT !.syncInterval[d] = TRUE]
            ELSE C1

SetClock(C) ==
    /\ syncOffset' = C.syncOffset
    /\ synced' = C.synced
    /\ syncing' = C.syncing
    /\ tsPeers' = C.tsPeers
    /\ syncInterval' = C.syncInterval
    /\ sampling' = C.sampling
    /\ sampled' = C.sampled
    /\ tsOffset' = C.tsOffset
    /\ manualOffset' = C.manualOffset

\* the orchestration $effect after a handler of device d: every value it reads is
\* taken after the handler and the mesh $effects
ClockReact(d) ==
    SetClock(clockEffect(ClockState, d, groupState'[d],
                         connectedOf(serverConnected'[d], peerConnected'[d]),
                         live'[d]))

\* the setInterval callback
SyncTick(d) ==
    /\ syncInterval[d]
    /\ ~sampling[d].active
    /\ canResample(connected(d), live[d])
    /\ SetClock(sync(ClockState, d, connected(d), live[d]))

\* (mutant) a round without a valid sample resets the offset
offsetAfterReset(old, valid, o) == IF valid THEN o ELSE 0

\* the "change" handler assigns the new offset; without a valid sample no
\* "change" is emitted
offsetAfter(old, valid, o) == IF valid THEN o ELSE old

\* a ts.sync() round ends: with a valid sample of some peer the offset is
\* replaced and "change" is emitted, then "sync" "end"
ResampleEnds(d) ==
    /\ sampling[d].active
    /\ \E valid \in BOOLEAN, o \in OffsetValues :
          /\ valid => sampling[d].peers # <<>>
          /\ ~valid => o = 0
          /\ SetClock([ClockState EXCEPT
                 !.tsOffset[d] = IF valid THEN o ELSE @,
                 !.syncOffset[d] = offsetAfter(@, valid, o),
                 !.synced[d] = IF valid THEN TRUE ELSE @,
                 !.syncing[d] = FALSE,
                 !.sampling[d] = Idle,
                 !.sampled[d].ended = IF valid THEN "valid" ELSE "failed"])

\* setManualOffset of the sync panel
SetManualOffset(d) ==
    \E offset \in ManualOffsets :
        /\ offset # manualOffset[d]
        /\ SetClock([ClockState EXCEPT !.manualOffset[d] = offset])

\* (mutant) the manual offset is added only once synced
nowIfSynced(d, wallClock) ==
    wallClock + tsOffset[d] + (IF synced[d] THEN manualOffset[d] ELSE 0)

\* Clock.now(): ts.now() + manualOffset, ts.now() being options.now() + the
\* offset inside ts
now(d, wallClock) == (wallClock + tsOffset[d]) + manualOffset[d]

\* the first statement of the reconcile $effect, for the layers that take the
\* mesh as their environment
LiveReset(c, assigned) ==
    LET before == connected(c)
        after == connectedOf(serverConnected'[c], peerConnected'[c])
    IN live' = IF after # before \/ (assigned /\ before = "true")
               THEN [live EXCEPT ![c] = FALSE] ELSE live

\* the debounce timeout stores what the mesh has come to
LiveSettles(d) ==
    /\ connected(d) = "true"
    /\ \E b \in BOOLEAN : live' = [live EXCEPT ![d] = b]
    /\ live'[d] # live[d]

\* ---------------------------------------------------------------- playback state
\* {} : no field is set; 0, <<>> and "undefined" stand for undefined
NoState == [bpm |-> 0, timeSignature |-> <<>>, isPlaying |-> "undefined",
            referenceTime |-> 0]

DefaultState == [bpm |-> DefaultBpm, timeSignature |-> DefaultTimeSignature,
                 isPlaying |-> "false", referenceTime |-> 0]

\* Object.assign(target, source) for a source that is {} or has every field
assign(target, source) == IF source = NoState THEN target ELSE source

\* setMetronomeStateLocal: merge, and unset the reference time unless newState
\* repeats isPlaying
setMetronomeStateLocal(current, newState) ==
    LET newIsPlaying == IF "isPlaying" \in DOMAIN newState
                        THEN newState.isPlaying ELSE "undefined"
        tmp == [f \in DOMAIN current |->
                   IF f \in DOMAIN newState THEN newState[f] ELSE current[f]]
    IN [tmp EXCEPT !.referenceTime =
            IF current.isPlaying = newIsPlaying THEN current.referenceTime ELSE 0]

\* what Audio compares: the state without referenceTime, and hasUserInteracted
audioView(ms, hui) == [bpm |-> ms.bpm, timeSignature |-> ms.timeSignature,
                       isPlaying |-> ms.isPlaying, hasUserInteracted |-> hui]

\* (mutant) the broadcast $effect without its reference-time condition
shouldBroadcastOnChange(ms, lk) == ms # lk

\* the condition of the broadcast $effect of MetronomeStateSync
shouldBroadcast(ms, lk) ==
    (ms.referenceTime # 0 \/ ms.isPlaying = "false") /\ ms # lk

\* the devices d has a connection with: both have reconciled a GroupState that
\* names the other (reliable mesh: a dial opens at once and stays open).  A
\* device that holds a GroupState was connected when it reconciled it; when it
\* loses the relay afterwards the reconcile $effect returns before
\* syncConnections and closes nothing.
meshPeers(d, gs, sc, pc) ==
    {r \in Devices \ {d} :
        /\ pid(r) \in Range(gs[d].members) /\ connectedOf(sc[d], pc[d]) # "undefined"
        /\ pid(d) \in Range(gs[r].members) /\ connectedOf(sc[r], pc[r]) # "undefined"}

stateMessage(ms) == [method |-> "metronomeState", state |-> ms]
requestMessage == [method |-> "requestInitialState", state |-> NoState]

\* send / broadcast: msgs is a set of <<from, to, message>>
Send(ch, msgs) ==
    [l \in Links |-> IF \E m \in msgs : <<m[1], m[2]>> = l
                     THEN Append(ch[l], (CHOOSE m \in msgs : <<m[1], m[2]>> = l)[3])
                     ELSE ch[l]]

\* (mutant) the initial-state $effect does not wait for live
requestsInitialStateNotLive(needsState, asLeader, isLive) ==
    needsState /\ ~asLeader

\* the else branch of the initial-state $effect: it returns unless live
requestsInitialState(needsState, asLeader, isLive) ==
    needsState /\ ~asLeader /\ isLive

\* The $effects of MetronomeStateProvider, MetronomeStateSync and Audio after a
\* handler of device d has left it with state ms0, last known state lk0, pending
\* scheduler call pend0 and the channels ch0.
PlayReact(d, ms0, lk0, pend0, ch0) ==
    LET isConnected == connectedOf(serverConnected'[d], peerConnected'[d])
        gs == groupState'[d]
        \* initial-state $effect: reruns when a value it has read changes
        initRerun == \/ isConnected # connected(d)
                     \/ gs.isGroupLeader # groupState[d].isGroupLeader
                     \/ gs.leader # groupState[d].leader
                     \/ live'[d] # live[d]
        needsState == isConnected # "undefined" /\ ms0.bpm = 0
        asLeader == needsState /\ (isConnected = "false" \/ gs.isGroupLeader)
        request == requestsInitialState(needsState, asLeader, live'[d]) /\ initRerun
        ms1 == IF asLeader THEN assign(ms0, DefaultState) ELSE ms0
        \* broadcast $effect
        doBroadcast == shouldBroadcast(ms1, lk0)
        peers == meshPeers(d, groupState', serverConnected', peerConnected')
        requests == IF request THEN {<<d, gs.leader, requestMessage>>} ELSE {}
        states == IF doBroadcast
                  THEN {<<d, r, stateMessage(ms1)>> : r \in peers} ELSE {}
        \* Audio watch $effect
        view == audioView(ms1, hasUserInteracted'[d])
    IN /\ request => gs.leader \in peers
       /\ metronomeState' = [metronomeState EXCEPT ![d] = ms1]
       /\ lastKnownState' = [lastKnownState EXCEPT ![d] = IF doBroadcast THEN ms1 ELSE lk0]
       /\ audioKnown' = [audioKnown EXCEPT ![d] = view]
       /\ audioPending' = [audioPending EXCEPT ![d] =
              pend0 \/ (view # audioKnown[d] /\ hasUserInteracted'[d])]
       /\ chan' = Send(ch0, requests \cup states)
       /\ lastBroadcast' = IF doBroadcast THEN ms1 ELSE lastBroadcast

\* a local edit of the controls: a bpm, a time signature, or the play button
LocalEdit(d) ==
    /\ edits < MaxEdits
    /\ metronomeState[d].bpm # 0
    /\ edits' = edits + 1
    /\ UNCHANGED lastReceived
    /\ LET wasPlaying == metronomeState[d].isPlaying = "true" /\ hasUserInteracted[d]
           toggle == [isPlaying |-> IF wasPlaying THEN "false" ELSE "true"]
       IN \E newState \in {[bpm |-> v] : v \in Bpms}
                          \cup {[timeSignature |-> t] : t \in TimeSignatures}
                          \cup {toggle} :
            /\ hasUserInteracted' = [hasUserInteracted EXCEPT ![d] =
                                        @ \/ newState = toggle]
            /\ PlayReact(d, setMetronomeStateLocal(metronomeState[d], newState),
                         lastKnownState[d], audioPending[d], chan)

\* updatePlaybackWithState gets to its end: a playing state without a reference
\* time is given one
SchedulerRuns(d) ==
    /\ audioPending[d]
    /\ UNCHANGED <<hasUserInteracted, edits, lastReceived>>
    /\ \E t \in RefTimes :
          LET ms == metronomeState[d]
              ms0 == IF ms.isPlaying = "true" /\ ms.referenceTime = 0
                     THEN [ms EXCEPT !.referenceTime = t] ELSE ms
          IN /\ (ms0 = ms) => t = 1
             /\ PlayReact(d, ms0, lastKnownState[d], FALSE, chan)

\* (mutant) stateHandler without its second Object.assign
stateHandlerKnownKept(known, ms) == known

\* stateHandler, second line: Object.assign(lastKnownState, metronomeState)
stateHandlerKnown(known, ms) == assign(known, ms)

\* (mutant) the received state only fills a replica that has no state
receivedFirstWins(current, state) == IF current = NoState THEN state ELSE current

\* stateHandler: the received state overwrites the replica
received(current, state) == assign(current, state)

\* device l[2] handles the oldest message of device l[1]
PeerReceive(l) ==
    /\ chan[l] # <<>>
    /\ UNCHANGED <<hasUserInteracted, edits>>
    /\ LET from == l[1]
           d == l[2]
           message == Head(chan[l])
           ch0 == [chan EXCEPT ![l] = Tail(@)]
       IN IF message.method = "requestInitialState"
          THEN \* initialStateRequestHandler
               /\ UNCHANGED lastReceived
               /\ PlayReact(d, metronomeState[d], lastKnownState[d], audioPending[d],
                            Send(ch0, {<<d, from, stateMessage(metronomeState[d])>>}))
          ELSE LET ms0 == received(metronomeState[d], message.state)
               IN /\ lastReceived' = [lastReceived EXCEPT ![d] =
                         [before |-> metronomeState[d], state |-> message.state]]
                  /\ PlayReact(d, ms0, stateHandlerKnown(lastKnownState[d], ms0),
                               audioPending[d], ch0)

\* the mesh of device d is complete: the debounce timeout stores live = true
LiveRises(d) ==
    /\ connected(d) = "true"
    /\ ~live[d]
    /\ {r \in Devices \ {d} : pid(r) \in Range(groupState[d].members)}
          \subseteq meshPeers(d, groupState, serverConnected, peerConnected)
    /\ live' = [live EXCEPT ![d] = TRUE]

\* ---------------------------------------------------------------- peer data
\* P2PMessageType
Topics == {"timesync", "metronomeState", "requestInitialState"}

\* the method of a message: a topic, a string that is no topic, or none
Methods == Topics \cup {"unknown", "none"}

\* the callbacks the components subscribe, each to its own topic
Callbacks == [timesync |-> "clock.ts.receive", metronomeState |-> "stateHandler",
              requestInitialState |-> "initialStateRequestHandler"]

NoData == [from |-> None, method |-> "none", hasResult |-> FALSE,
           topic |-> "none", notified |-> {}, error |-> FALSE,
           known |-> [t \in Topics |-> {}]]

\* (mutant) a result field sends the message to timesync whatever its method
dataTopicResultFirst(method, hasResult) ==
    IF hasResult THEN "timesync" ELSE method

\* conn.on("data"): the topic notify() is called with, "none" for the
\* console.warn branch
dataTopic(method, hasResult) ==
    IF method # "none" THEN method
    ELSE IF hasResult THEN "timesync" ELSE "none"

\* notify(): the callbacks called; this.#subscribers[topic] is undefined for a
\* string that is no topic, and forEach of undefined throws
notify(S, topic) ==
    IF topic \in Topics THEN [notified |-> S[topic], error |-> FALSE]
    ELSE [notified |-> {}, error |-> topic # "none"]

\* subscribe(method, callback)
Subscribe(topic) ==
    /\ Callbacks[topic] \notin subscribers[topic]
    /\ subscribers' = [subscribers EXCEPT ![topic] = @ \cup {Callbacks[topic]}]
    /\ UNCHANGED routed

\* unsubscribe(method, callback)
Unsubscribe(topic) ==
    /\ Callbacks[topic] \in subscribers[topic]
    /\ subscribers' = [subscribers EXCEPT ![topic] = @ \ {Callbacks[topic]}]
    /\ UNCHANGED routed

\* a data event of a connection with peer from
OnData(from, method, hasResult) ==
    LET topic == dataTopic(method, hasResult)
        called == notify(subscribers, topic)
    IN /\ routed' = [from |-> from, method |-> method, hasResult |-> hasResult,
                     topic |-> topic, notified |-> called.notified,
                     error |-> called.error, known |-> subscribers]
       /\ UNCHANGED subscribers

\* ---------------------------------------------------------------- timing
\* A number is the integer count of its multiples of 2^-FractionBits.
Scale == 2 ^ FractionBits

Abs(x) == IF x < 0 THEN -x ELSE x

\* the spacing of the floating-point numbers at magnitude a
RECURSIVE Ulp(_)
Ulp(a) == IF a < 2 ^ Precision THEN 1 ELSE 2 * Ulp(a \div 2)

\* round to nearest, ties to even: the result of a floating-point operation
\* whose exact value is num / den
RoundQuotient(num, den) ==
    LET a == Abs(num)
        q == Ulp(a \div den)
        lo == (a \div (den * q)) * q
        rest == a - lo * den
        up == IF 2 * rest < den * q THEN lo
              ELSE IF 2 * rest > den * q THEN lo + q
              ELSE IF (lo \div q) % 2 = 0 THEN lo ELSE lo + q
    IN IF num < 0 THEN -up ELSE up

Round(x) == RoundQuotient(x, 1)

\* the % of two numbers: exact, with the sign of the dividend
Remainder(x, m) == IF x < 0 THEN -((-x) % m) ELSE x % m

\* getTransportPositionSeconds, for the synced wall clock time currentTime
getTransportPositionSeconds(currentTime, referenceTime, measureLengthSeconds, audioLatencySeconds, optionalStartDelaySeconds) ==
    LET timeSinceReferenceSeconds ==
            RoundQuotient(Round(currentTime - referenceTime), 1000)
        transportSeconds ==
            Round(Round(timeSinceReferenceSeconds + audioLatencySeconds)
                  + optionalStartDelaySeconds)
        transportSecondsModulo == Remainder(transportSeconds, measureLengthSeconds)
    IN IF transportSecondsModulo < 0
       THEN Round(transportSecondsModulo + measureLengthSeconds)
       ELSE transportSecondsModulo

\* (mutant) the playhead position is added to the current time
getReferenceTimeAdded(currentTime, transportSeconds, audioLatencySeconds, optionalStartDelaySeconds) ==
    LET schedulingOffsetSeconds ==
            Round(Round(transportSeconds + audioLatencySeconds)
                  + optionalStartDelaySeconds)
    IN Round(currentTime + Round(schedulingOffsetSeconds * 1000))

\* getReferenceTime, for the synced wall clock time currentTime
getReferenceTime(currentTime, transportSeconds, audioLatencySeconds, optionalStartDelaySeconds) ==
    LET schedulingOffsetSeconds ==
            Round(Round((-transportSeconds) + audioLatencySeconds)
                  + optionalStartDelaySeconds)
    IN Round(currentTime + Round(schedulingOffsetSeconds * 1000))

\* times in milliseconds: 0, 1/64, 1, 1000, 2500 and 4000
TimesMs == {0, Scale \div 64, Scale, 1000 * Scale, 2500 * Scale, 4000 * Scale}
\* measure lengths in seconds: 1 and 2
MeasureLengths == {Scale, 2 * Scale}
\* audio latencies in seconds: 0 and 1/128
Latencies == {0, Scale \div 128}

NoTiming == [stage |-> "none", currentTime |-> 0, referenceTime |-> 0,
             measureLengthSeconds |-> 0, audioLatencySeconds |-> 0,
             transportSeconds |-> 0, back |-> 0]

\* the scheduler derives the playhead position from a reference time
ComputePosition ==
    /\ timing.stage = "none"
    /\ \E currentTime \in TimesMs, referenceTime \in TimesMs,
          measureLengthSeconds \in MeasureLengths, audioLatencySeconds \in Latencies :
          timing' = [stage |-> "position",
                     currentTime |-> currentTime,
                     referenceTime |-> referenceTime,
                     measureLengthSeconds |-> measureLengthSeconds,
                     audioLatencySeconds |-> audioLatencySeconds,
                     transportSeconds |->
                         getTransportPositionSeconds(currentTime, referenceTime,
                             measureLengthSeconds, audioLatencySeconds, 0),
                     back |-> 0]

\* the position is fed back into getReferenceTime at the same current time
ComputeReference ==
    /\ timing.stage = "position"
    /\ timing' = [timing EXCEPT
                     !.stage = "reference",
                     !.back = getReferenceTime(timing.currentTime,
                                  timing.transportSeconds,
                                  timing.audioLatencySeconds, 0)]

\* ---------------------------------------------------------------- Spec
InitGroupState == [groupCode |-> None, leader |-> None, members |-> <<>>,
                   isGroupLeader |-> FALSE]

InitRelay ==
    /\ groups = EmptyMap
    /\ clients = EmptyMap
    /\ memberToGroup = EmptyMap
    /\ sockPeerId = [s \in Sockets |-> None]
    /\ sockGroupCode = [s \in Sockets |-> None]
    /\ srv = [s \in Sockets |-> "none"]
    /\ sent = {}
    /\ registered = [s \in Sockets |-> [done |-> FALSE, groupCode |-> None]]

InitWire ==
    /\ toServer = [s \in Sockets |-> <<>>]
    /\ inbox = [s \in Sockets |-> <<>>]

InitGroup ==
    /\ ws = [s \in Sockets |-> "connecting"]
    /\ websocketOpen = [s \in Sockets |-> FALSE]
    /\ groupState = [s \in Sockets |-> InitGroupState]
    /\ peerConnected = [s \in Sockets |-> "undefined"]
    /\ serverConnected = [s \in Sockets |-> "undefined"]

InitMesh ==
    /\ conn = [k \in ConnIds |-> FreeConn]
    /\ pcs = [s \in Sockets |-> <<>>]
    /\ avail = [s \in Sockets |-> {}]
    /\ live = [s \in Sockets |-> FALSE]
    /\ timer = [s \in Sockets |-> "none"]
    /\ sendOutcome = NoSend

\* the orchestration $effect has run once at mount, for the initial GroupState
InitClock ==
    /\ syncOffset = [s \in Sockets |-> 0]
    /\ synced = [s \in Sockets |-> FALSE]
    /\ syncing = [s \in Sockets |-> FALSE]
    /\ tsPeers = [s \in Sockets |-> <<None>>]
    /\ syncInterval = [s \in Sockets |-> FALSE]
    /\ sampling = [s \in Sockets |-> Idle]
    /\ sampled = [s \in Sockets |-> [peers |-> <<>>, ended |-> "none"]]
    /\ tsOffset = [s \in Sockets |-> 0]
    /\ manualOffset = [s \in Sockets |-> 0]

InitPlay ==
    /\ metronomeState = [s \in Sockets |-> NoState]
    /\ lastKnownState = [s \in Sockets |-> NoState]
    /\ audioKnown = [s \in Sockets |-> audioView(NoState, FALSE)]
    /\ audioPending = [s \in Sockets |-> FALSE]
    /\ hasUserInteracted = [s \in Sockets |-> FALSE]
    /\ chan = [l \in Links |-> <<>>]
    /\ edits = 0
    /\ lastBroadcast = NoState
    /\ lastReceived = [s \in Sockets |-> [before |-> NoState, state |-> NoState]]
    /\ timing = NoTiming
    /\ subscribers = [t \in Topics |-> {}]
    /\ routed = NoData

Init == InitRelay /\ InitWire /\ InitGroup /\ InitMesh /\ InitClock /\ InitPlay

\* a client's websocket opens: the relay upgrades, the client's onopen runs
Connect(c) ==
    /\ WsOnOpen(c)
    /\ RelayUpgrade(c)
    /\ UNCHANGED inbox

PeerOpen(c) ==
    /\ PeerOnOpen(c)
    /\ UNCHANGED <<relayVars, inbox>>

PeerDisconnected(c) ==
    /\ PeerOnDisconnected(c)
    /\ UNCHANGED <<relayVars, inbox>>

RelayReceive(s) ==
    /\ toServer[s] # <<>>
    /\ RelayOnMessage(s, Head(toServer[s]))
    /\ toServer' = [toServer EXCEPT ![s] = Tail(@)]
    /\ inbox' = Deliver(sent')
    /\ UNCHANGED <<groupVars, registered>>

RelayClose(s) ==
    /\ RelayOnClose(s)
    /\ inbox' = Deliver(sent')
    /\ UNCHANGED <<toServer, groupVars>>

RelayError(s) ==
    /\ RelayOnError(s)
    /\ inbox' = Deliver(sent')
    /\ UNCHANGED <<toServer, groupVars>>

ClientReceive(c) ==
    /\ inbox[c] # <<>>
    /\ GroupOnMessage(c, Head(inbox[c]))
    /\ inbox' = [inbox EXCEPT ![c] = Tail(@)]
    /\ UNCHANGED relayVars

ClientClose(c) ==
    /\ GroupOnClose(c)
    /\ inbox' = [inbox EXCEPT ![c] = <<>>]
    /\ UNCHANGED relayVars

Next ==
    \/ \E c \in Clients : Connect(c) /\ UNCHANGED upperVars
    \/ \E c \in Clients : PeerOpen(c) /\ UNCHANGED upperVars
    \/ \E c \in Clients : PeerDisconnected(c) /\ UNCHANGED upperVars
    \/ \E s \in Sockets : RelayReceive(s) /\ UNCHANGED upperVars
    \/ \E s \in Sockets : RelayClose(s) /\ UNCHANGED upperVars
    \/ \E s \in Sockets : RelayError(s) /\ UNCHANGED upperVars
    \/ \E c \in Clients : ClientReceive(c) /\ UNCHANGED upperVars
    \/ \E c \in Clients : ClientClose(c) /\ UNCHANGED upperVars

Spec == Init /\ [][Next]_vars

\* ---------------------------------------------------------------- SpecRelay
\* the relay alone, under every sequence of upgrade, register, error and close
\* events its sockets can deliver; a socket registers once (the register effect
\* of its client runs once), with any peer id and any or no group code
AnyUpgrade(s) ==
    /\ RelayUpgrade(s)
    /\ UNCHANGED <<wireVars, groupVars>>

AnyRegister(s) ==
    /\ sockPeerId[s] = None
    /\ \E peerId \in Peers, code \in Codes \cup {None} :
            /\ RelayOnMessage(s, [peerId |-> peerId, groupCode |-> code])
            /\ registered' = [registered EXCEPT ![s] =
                                  [done |-> TRUE, groupCode |-> code]]
    /\ UNCHANGED <<wireVars, groupVars>>

AnyClose(s) ==
    /\ RelayOnClose(s)
    /\ UNCHANGED <<wireVars, groupVars>>

AnyError(s) ==
    /\ RelayOnError(s)
    /\ UNCHANGED <<wireVars, groupVars>>

NextRelay ==
    \/ \E s \in Sockets : AnyUpgrade(s) /\ UNCHANGED upperVars
    \/ \E s \in Sockets : AnyRegister(s) /\ UNCHANGED upperVars
    \/ \E s \in Sockets : AnyClose(s) /\ UNCHANGED upperVars
    \/ \E s \in Sockets : AnyError(s) /\ UNCHANGED upperVars

SpecRelay == Init /\ [][NextRelay]_vars

\* ---------------------------------------------------------------- SpecMesh
\* relay, group coordinators and the peer mesh of the devices; the transport is
\* reliable: a connection end closes only after its other end was closed
MeshConnect(c) ==
    /\ Connect(c)
    /\ MeshReact(c, FALSE)

MeshPeerOpen(c) ==
    /\ PeerOpen(c)
    /\ MeshReact(c, FALSE)

MeshPeerDisconnected(c) ==
    /\ PeerDisconnected(c)
    /\ MeshReact(c, FALSE)

MeshRelayReceive(s) ==
    /\ RelayReceive(s)
    /\ UNCHANGED meshVars

MeshRelayClose(s) ==
    /\ RelayClose(s)
    /\ UNCHANGED meshVars

MeshClientReceive(c) ==
    /\ ClientReceive(c)
    /\ MeshReact(c, TRUE)

MeshClientClose(c) ==
    /\ ClientClose(c)
    /\ MeshReact(c, FALSE)

MeshOffer(k) ==
    /\ OfferArrives(k)
    /\ UNCHANGED <<relayVars, wireVars, groupVars>>

MeshConnOpens(k, d) ==
    /\ ConnOpens(k, d)
    /\ UNCHANGED <<relayVars, wireVars, groupVars>>

MeshConnCloses(k, d) ==
    /\ ConnCloses(k, d)
    /\ UNCHANGED <<relayVars, wireVars, groupVars>>

MeshLiveTimeout(d) ==
    /\ LiveTimeout(d)
    /\ UNCHANGED <<relayVars, wireVars, groupVars>>

NextMesh ==
    \/ \E c \in Devices : MeshConnect(c) /\ UNCHANGED aboveMesh
    \/ \E c \in Devices : MeshPeerOpen(c) /\ UNCHANGED aboveMesh
    \/ \E c \in Devices : MeshPeerDisconnected(c) /\ UNCHANGED aboveMesh
    \/ \E s \in Devices : MeshRelayReceive(s) /\ UNCHANGED aboveMesh
    \/ \E s \in Devices : MeshRelayClose(s) /\ UNCHANGED aboveMesh
    \/ \E c \in Devices : MeshClientReceive(c) /\ UNCHANGED aboveMesh
    \/ \E c \in Devices : MeshClientClose(c) /\ UNCHANGED aboveMesh
    \/ \E k \in ConnIds : MeshOffer(k) /\ UNCHANGED aboveMesh
    \/ \E k \in ConnIds, d \in Devices : MeshConnOpens(k, d) /\ UNCHANGED aboveMesh
    \/ \E k \in ConnIds, d \in Devices : MeshConnCloses(k, d) /\ UNCHANGED aboveMesh
    \/ \E d \in Devices : MeshLiveTimeout(d) /\ UNCHANGED aboveMesh

SpecMesh == Init /\ [][NextMesh]_vars

\* what the event loops and the transport get done when nothing fails: sockets
\* and peers open, queued messages are handled, dials are negotiated, closes
\* propagate and the debounce timeout fires
MeshProgress ==
    /\ UNCHANGED aboveMesh
    /\ \/ \E c \in Devices : MeshConnect(c)
       \/ \E c \in Devices : MeshPeerOpen(c)
       \/ \E s \in Devices : MeshRelayReceive(s)
       \/ \E c \in Devices : MeshClientReceive(c)
       \/ \E k \in ConnIds : MeshOffer(k)
       \/ \E k \in ConnIds, d \in Devices : MeshConnOpens(k, d)
       \/ \E k \in ConnIds, d \in Devices : MeshConnCloses(k, d)
       \/ \E d \in Devices : MeshLiveTimeout(d)

SpecMeshFair == SpecMesh /\ WF_vars(MeshProgress)

\* ---------------------------------------------------------------- SpecReconcile
\* SpecMesh with one more member: a peer that is not one of the devices joins
\* over its own relay socket; it answers no dial and reads its messages at once
Outsiders == Sockets \ Devices

OutsiderUpgrade(s) ==
    /\ RelayUpgrade(s)
    /\ UNCHANGED <<wireVars, groupVars, meshVars>>

OutsiderRegister(s) ==
    /\ sockPeerId[s] = None
    /\ \E code \in Codes \cup {None} :
            /\ RelayOnMessage(s, [peerId |-> s, groupCode |-> code])
            /\ registered' = [registered EXCEPT ![s] =
                                  [done |-> TRUE, groupCode |-> code]]
    /\ inbox' = [Deliver(sent') EXCEPT ![s] = <<>>]
    /\ UNCHANGED <<toServer, groupVars, meshVars>>

NextReconcile ==
    \/ \E c \in Devices : MeshConnect(c) /\ UNCHANGED aboveMesh
    \/ \E c \in Devices : MeshPeerOpen(c) /\ UNCHANGED aboveMesh
    \/ \E s \in Devices : MeshRelayReceive(s) /\ UNCHANGED aboveMesh
    \/ \E c \in Devices : MeshClientReceive(c) /\ UNCHANGED aboveMesh
    \/ \E k \in ConnIds : MeshOffer(k) /\ UNCHANGED aboveMesh
    \/ \E k \in ConnIds, d \in Devices : MeshConnOpens(k, d) /\ UNCHANGED aboveMesh
    \/ \E k \in ConnIds, d \in Devices : MeshConnCloses(k, d) /\ UNCHANGED aboveMesh
    \/ \E d \in Devices : MeshLiveTimeout(d) /\ UNCHANGED aboveMesh
    \/ \E s \in Outsiders : OutsiderUpgrade(s) /\ UNCHANGED aboveMesh
    \/ \E s \in Outsiders : OutsiderRegister(s) /\ UNCHANGED aboveMesh
    \/ \E s \in Outsiders : MeshRelayClose(s) /\ UNCHANGED aboveMesh

SpecReconcile == Init /\ [][NextReconcile]_vars

\* ---------------------------------------------------------------- SpecSend
\* SpecMesh up to a send() call of one of the devices to the other
NextSend ==
    \/ sendOutcome = NoSend /\ NextMesh
    \/ \E d \in Devices, r \in Devices :
          /\ PeerSend(d, pid(r))
          /\ UNCHANGED <<relayVars, wireVars, groupVars, clockVars, playVars,
                         timing, subscribers, routed>>

SpecSend == Init /\ [][NextSend]_vars

\* ---------------------------------------------------------------- SpecClock
\* relay, group coordinators and the clock orchestration of the devices; the mesh
\* is the environment: live is reset by the reconcile $effect and stored by the
\* debounce timeout
meshBelowLive == <<conn, pcs, avail, timer, sendOutcome, timing, subscribers, routed>>

ClockConnect(c) ==
    /\ Connect(c)
    /\ LiveReset(c, FALSE)
    /\ ClockReact(c)

ClockPeerOpen(c) ==
    /\ PeerOpen(c)
    /\ LiveReset(c, FALSE)
    /\ ClockReact(c)

ClockPeerDisconnected(c) ==
    /\ PeerDisconnected(c)
    /\ LiveReset(c, FALSE)
    /\ ClockReact(c)

ClockRelayReceive(s) ==
    /\ RelayReceive(s)
    /\ UNCHANGED <<live, clockVars>>

ClockRelayClose(s) ==
    /\ RelayClose(s)
    /\ UNCHANGED <<live, clockVars>>

ClockClientReceive(c) ==
    /\ ClientReceive(c)
    /\ LiveReset(c, TRUE)
    /\ ClockReact(c)

ClockClientClose(c) ==
    /\ ClientClose(c)
    /\ LiveReset(c, FALSE)
    /\ ClockReact(c)

ClockLiveSettles(d) ==
    /\ LiveSettles(d)
    /\ UNCHANGED <<relayVars, wireVars, groupVars>>
    /\ ClockReact(d)

ClockSyncTick(d) ==
    /\ SyncTick(d)
    /\ UNCHANGED <<relayVars, wireVars, groupVars, live>>

ClockResampleEnds(d) ==
    /\ ResampleEnds(d)
    /\ UNCHANGED <<relayVars, wireVars, groupVars, live>>

ClockSetManualOffset(d) ==
    /\ SetManualOffset(d)
    /\ UNCHANGED <<relayVars, wireVars, groupVars, live>>

NextClock ==
    \/ \E c \in Devices : ClockConnect(c) /\ UNCHANGED <<meshBelowLive, playVars>>
    \/ \E c \in Devices : ClockPeerOpen(c) /\ UNCHANGED <<meshBelowLive, playVars>>
    \/ \E c \in Devices : ClockPeerDisconnected(c) /\ UNCHANGED <<meshBelowLive, playVars>>
    \/ \E s \in Devices : ClockRelayReceive(s) /\ UNCHANGED <<meshBelowLive, playVars>>
    \/ \E s \in Devices : ClockRelayClose(s) /\ UNCHANGED <<meshBelowLive, playVars>>
    \/ \E c \in Devices : ClockClientReceive(c) /\ UNCHANGED <<meshBelowLive, playVars>>
    \/ \E c \in Devices : ClockClientClose(c) /\ UNCHANGED <<meshBelowLive, playVars>>
    \/ \E d \in Devices : ClockLiveSettles(d) /\ UNCHANGED <<meshBelowLive, playVars>>
    \/ \E d \in Devices : ClockSyncTick(d) /\ UNCHANGED <<meshBelowLive, playVars>>
    \/ \E d \in Devices : ClockResampleEnds(d) /\ UNCHANGED <<meshBelowLive, playVars>>
    \/ \E d \in Devices : ClockSetManualOffset(d) /\ UNCHANGED <<meshBelowLive, playVars>>

SpecClock == Init /\ [][NextClock]_vars

\* ---------------------------------------------------------------- SpecResample
\* relay, group coordinators, peer mesh and clock orchestration with no failure:
\* a timesync round gives a valid sample exactly when the request and the
\* answer are sent on connections that have a data listener at the receiving end
aboveClock == <<playVars, sendOutcome, timing, subscribers, routed>>

\* a message that device d sends to peer target reaches notify() there
dispatched(M, d, target) ==
    LET outcome == send(M, d, target)
    IN /\ target \in Devices
       /\ ~outcome.error
       /\ \A k \in outcome.on : hasListeners(M, k, target)

\* the request of ts.sync() reaches the peer and its answer comes back
answered(M, d, peers) ==
    /\ peers # <<>>
    /\ dispatched(M, d, Head(peers))
    /\ dispatched(M, Head(peers), d)

ResampleConnect(c) ==
    /\ Connect(c)
    /\ MeshReact(c, FALSE)
    /\ ClockReact(c)

ResamplePeerOpen(c) ==
    /\ PeerOpen(c)
    /\ MeshReact(c, FALSE)
    /\ ClockReact(c)

ResampleRelayReceive(s) ==
    /\ RelayReceive(s)
    /\ UNCHANGED <<meshVars, clockVars>>

ResampleClientReceive(c) ==
    /\ ClientReceive(c)
    /\ MeshReact(c, TRUE)
    /\ ClockReact(c)

ResampleOffer(k) ==
    /\ OfferArrives(k)
    /\ UNCHANGED <<relayVars, wireVars, groupVars, clockVars>>

ResampleConnOpens(k, d) ==
    /\ ConnOpens(k, d)
    /\ UNCHANGED <<relayVars, wireVars, groupVars, clockVars>>

ResampleLiveTimeout(d) ==
    /\ LiveTimeout(d)
    /\ UNCHANGED <<relayVars, wireVars, groupVars>>
    /\ ClockReact(d)

ResampleSyncTick(d) ==
    /\ SyncTick(d)
    /\ UNCHANGED <<relayVars, wireVars, groupVars, meshVars>>

ResampleEndsOnMesh(d) ==
    /\ ResampleEnds(d)
    /\ (sampled'[d].ended = "valid") <=> answered(MeshState, d, sampling[d].peers)
    /\ UNCHANGED <<relayVars, wireVars, groupVars, meshVars>>

NextResample ==
    \/ \E c \in Devices : ResampleConnect(c) /\ UNCHANGED aboveClock
    \/ \E c \in Devices : ResamplePeerOpen(c) /\ UNCHANGED aboveClock
    \/ \E s \in Devices : ResampleRelayReceive(s) /\ UNCHANGED aboveClock
    \/ \E c \in Devices : ResampleClientReceive(c) /\ UNCHANGED aboveClock
    \/ \E k \in ConnIds : ResampleOffer(k) /\ UNCHANGED aboveClock
    \/ \E k \in ConnIds, d \in Devices : ResampleConnOpens(k, d) /\ UNCHANGED aboveClock
    \/ \E d \in Devices : ResampleLiveTimeout(d) /\ UNCHANGED aboveClock
    \/ \E d \in Devices : ResampleSyncTick(d) /\ UNCHANGED aboveClock
    \/ \E d \in Devices : ResampleEndsOnMesh(d) /\ UNCHANGED aboveClock

SpecResample == Init /\ [][NextResample]_vars /\ WF_vars(NextResample)

\* ---------------------------------------------------------------- SpecMigrate
\* SpecClock for three devices that register under one group code and whose
\* peers stay registered: members leave only by the relay closing their socket
Trio == 1..NumPeers

\* every register message carries the first group code
OneGroup ==
    \A c \in Trio : \A i \in DOMAIN toServer[c] : toServer[c][i].groupCode = 1

\* at most MaxLeaves sockets have closed
FewLeave == Cardinality({s \in Trio : srv[s] = "closed"}) <= MaxLeaves

NextMigrate ==
    \/ \E c \in Trio : ClockConnect(c) /\ OneGroup' /\ UNCHANGED <<meshBelowLive, playVars>>
    \/ \E c \in Trio : ClockPeerOpen(c) /\ OneGroup' /\ UNCHANGED <<meshBelowLive, playVars>>
    \/ \E s \in Trio : ClockRelayReceive(s) /\ UNCHANGED <<meshBelowLive, playVars>>
    \/ \E s \in Trio : ClockRelayClose(s) /\ FewLeave' /\ UNCHANGED <<meshBelowLive, playVars>>
    \/ \E c \in Trio : ClockClientReceive(c) /\ UNCHANGED <<meshBelowLive, playVars>>
    \/ \E d \in Trio : ClockLiveSettles(d) /\ UNCHANGED <<meshBelowLive, playVars>>
    \/ \E d \in Trio : ClockSyncTick(d) /\ UNCHANGED <<meshBelowLive, playVars>>
    \/ \E d \in Trio : ClockResampleEnds(d) /\ UNCHANGED <<meshBelowLive, playVars>>

SpecMigrate == Init /\ [][NextMigrate]_vars

\* ---------------------------------------------------------------- SpecPlay
\* relay, group coordinators and the playback replication of the devices over a
\* reliable mesh; no socket, peer or connection fails
NoEdit(c) ==
    /\ UNCHANGED <<hasUserInteracted, edits, lastReceived>>
    /\ PlayReact(c, metronomeState[c], lastKnownState[c], audioPending[c], chan)

PlayConnect(c) ==
    /\ Connect(c)
    /\ LiveReset(c, FALSE)
    /\ NoEdit(c)

PlayPeerOpen(c) ==
    /\ PeerOpen(c)
    /\ LiveReset(c, FALSE)
    /\ NoEdit(c)

PlayRelayReceive(s) ==
    /\ RelayReceive(s)
    /\ UNCHANGED <<live, playVars>>

PlayClientReceive(c) ==
    /\ ClientReceive(c)
    /\ LiveReset(c, TRUE)
    /\ NoEdit(c)

PlayLiveRises(d) ==
    /\ LiveRises(d)
    /\ UNCHANGED <<relayVars, wireVars, groupVars>>
    /\ NoEdit(d)

PlayLocalEdit(d) ==
    /\ UNCHANGED <<relayVars, wireVars, groupVars, live>>
    /\ LocalEdit(d)

PlaySchedulerRuns(d) ==
    /\ UNCHANGED <<relayVars, wireVars, groupVars, live>>
    /\ SchedulerRuns(d)

PlayPeerReceive(l) ==
    /\ UNCHANGED <<relayVars, wireVars, groupVars, live>>
    /\ PeerReceive(l)

NextPlay ==
    \/ \E c \in Devices : PlayConnect(c) /\ UNCHANGED <<meshBelowLive, clockVars>>
    \/ \E c \in Devices : PlayPeerOpen(c) /\ UNCHANGED <<meshBelowLive, clockVars>>
    \/ \E s \in Devices : PlayRelayReceive(s) /\ UNCHANGED <<meshBelowLive, clockVars>>
    \/ \E c \in Devices : PlayClientReceive(c) /\ UNCHANGED <<meshBelowLive, clockVars>>
    \/ \E d \in Devices : PlayLiveRises(d) /\ UNCHANGED <<meshBelowLive, clockVars>>
    \/ \E d \in Devices : PlayLocalEdit(d) /\ UNCHANGED <<meshBelowLive, clockVars>>
    \/ \E d \in Devices : PlaySchedulerRuns(d) /\ UNCHANGED <<meshBelowLive, clockVars>>
    \/ \E l \in Links : PlayPeerReceive(l) /\ UNCHANGED <<meshBelowLive, clockVars>>

SpecPlay == Init /\ [][NextPlay]_vars

\* what the event loops get done: sockets and peers open, queued messages are
\* handled, the mesh becomes live and a pending scheduler call finishes
PlayProgress ==
    /\ UNCHANGED <<meshBelowLive, clockVars>>
    /\ \/ \E c \in Devices : PlayConnect(c)
       \/ \E c \in Devices : PlayPeerOpen(c)
       \/ \E s \in Devices : PlayRelayReceive(s)
       \/ \E c \in Devices : PlayClientReceive(c)
       \/ \E d \in Devices : PlayLiveRises(d)
       \/ \E d \in Devices : PlaySchedulerRuns(d)
       \/ \E l \in Links : PlayPeerReceive(l)

SpecPlayFair == SpecPlay /\ WF_vars(PlayProgress)

\* ---------------------------------------------------------------- SpecPlayLoss
\* SpecPlay, and a device's websocket to the relay may close (websocket.onclose)
PlayClientClose(c) ==
    /\ ClientClose(c)
    /\ LiveReset(c, FALSE)
    /\ NoEdit(c)

NextPlayLoss ==
    \/ NextPlay
    \/ \E c \in Devices : PlayClientClose(c) /\ UNCHANGED <<meshBelowLive, clockVars>>

SpecPlayLoss == Init /\ [][NextPlayLoss]_vars

\* ---------------------------------------------------------------- SpecTiming
\* the two timing functions, applied to arguments drawn from small sets
NextTiming ==
    \/ ComputePosition /\ UNCHANGED <<relayVars, wireVars, groupVars, meshVars,
                                       clockVars, playVars, sendOutcome,
                                       subscribers, routed>>
    \/ ComputeReference /\ UNCHANGED <<relayVars, wireVars, groupVars, meshVars,
                                        clockVars, playVars, sendOutcome,
                                        subscribers, routed>>

SpecTiming == Init /\ [][NextTiming]_vars

\* ---------------------------------------------------------------- SpecRoute
\* the data handler of PeerContext under every order of subscribe, unsubscribe
\* and data events, for messages with any method and with or without a result
NextRoute ==
    \/ \E topic \in Topics :
          /\ Subscribe(topic)
          /\ UNCHANGED <<relayVars, wireVars, groupVars, meshVars, clockVars,
                         playVars, sendOutcome, timing>>
    \/ \E topic \in Topics :
          /\ Unsubscribe(topic)
          /\ UNCHANGED <<relayVars, wireVars, groupVars, meshVars, clockVars,
                         playVars, sendOutcome, timing>>
    \/ \E from \in Peers, method \in Methods, hasResult \in BOOLEAN :
          /\ OnData(from, method, hasResult)
          /\ UNCHANGED <<relayVars, wireVars, groupVars, meshVars, clockVars,
                         playVars, sendOutcome, timing>>

SpecRoute == Init /\ [][NextRoute]_vars

\* ---------------------------------------------------------------- relay claims

\* C4: in the relay's group state and in every groupUpdate it sends, the leader
\* is one of the members whenever the member list is non-empty
LeaderInMembers ==
    /\ \A g \in DOMAIN groups :
          groups[g].members # <<>> => groups[g].leader \in Range(groups[g].members)
    /\ \A m \in sent :
          m[2].members # <<>> => m[2].leader \in Range(m[2].members)

\* a leader has been dropped from a group that stays non-empty, and the update
\* that names its successor has been sent
LeaderReplacedWitness ==
    \E s \in Sockets, g \in DOMAIN groups :
        /\ srv[s] = "closed"
        /\ sockGroupCode[s] = g
        /\ sockPeerId[s] \notin Range(groups[g].members)
        /\ \E m \in sent : m[2].groupCode = g /\ m[2].leader = groups[g].leader

\* socket s delivers a close or error event, and no other socket of its peer
\* remains open
Disconnects(s) ==
    /\ srv[s] \in {"open", "errored"}
    /\ srv'[s] # srv[s]
    /\ sockPeerId[s] # None
    /\ \A s2 \in Sockets \ {s} : ~(srv[s2] \in {"open", "errored"} /\ sockPeerId[s2] = sockPeerId[s])

\* C5: when the leader of a group with at least two members disconnects, the
\* earliest-joined remaining member is the new leader
OldestMemberPromoted ==
    [][\A s \in Sockets, g \in DOMAIN groups :
          (/\ Disconnects(s)
           /\ groups[g].leader = sockPeerId[s]
           /\ Len(groups[g].members) >= 2)
          => (/\ g \in DOMAIN groups'
              /\ groups'[g].leader = Head(SeqWithout(groups[g].members, sockPeerId[s])))]_vars

\* the groups whose member list a step changes
ChangedGroups ==
    {g \in (DOMAIN groups) \cup (DOMAIN groups') :
        \/ g \notin DOMAIN groups
        \/ g \notin DOMAIN groups'
        \/ groups[g].members # groups'[g].members}

\* C6: after every registration or disconnect that changes a group's member set,
\* every remaining member whose relay socket is open is sent a groupUpdate with
\* the group's current members and leader
UpdateSentOnChange ==
    [][\A g \in ChangedGroups :
          g \in DOMAIN groups' =>
            \A p \in Range(groups'[g].members) :
                (p \in DOMAIN clients' /\ srv'[clients'[p]] = "open")
                => <<clients'[p], groupUpdate(g, groups'[g])>> \in sent']_vars

\* ---------------------------------------------------------------- coordinator claims

\* the members of group g that hold isGroupLeader in their local GroupState
LocalLeaders(g) ==
    {p \in Range(groups[g].members) :
        p \in DOMAIN clients /\ groupState[clients[p]].isGroupLeader}

\* every member of g has processed the relay's latest update of g
UpToDate(g) ==
    \A p \in Range(groups[g].members) :
        /\ p \in DOMAIN clients
        /\ groupState[clients[p]].groupCode = g
        /\ groupState[clients[p]].members = groups[g].members
        /\ groupState[clients[p]].leader = groups[g].leader

\* C2 as stated: at all times exactly one member of every non-empty group holds
\* isGroupLeader locally, and it is the relay's leader
ExactlyOneLocalLeader ==
    \A g \in DOMAIN groups :
        groups[g].members # <<>> => LocalLeaders(g) = {groups[g].leader}

\* C2 as amended: a member whose local GroupState is that of group g and holds
\* isGroupLeader is the relay's leader of g, so at most one member holds it; once
\* every member has processed the latest update exactly the relay's leader does
AtMostOneLocalLeader ==
    \A g \in DOMAIN groups :
        /\ \A p \in LocalLeaders(g) :
              groupState[clients[p]].groupCode = g => p = groups[g].leader
        /\ UpToDate(g) => LocalLeaders(g) = {groups[g].leader}

\* leadership has migrated and the new leader has processed the update
LeaderMigratedWitness ==
    \E g \in DOMAIN groups, s \in Sockets :
        /\ srv[s] = "closed"
        /\ sockGroupCode[s] = g
        /\ sockPeerId[s] \notin Range(groups[g].members)
        /\ UpToDate(g)
        /\ LocalLeaders(g) = {groups[g].leader}

\* ---------------------------------------------------------------- mesh claims

\* the connections of device d with peer r that are open at d
OpenWith(d, r) ==
    {k \in Range(pcs[d]) : connPeer(MeshState, k, d) = r /\ connOpen(MeshState, k, d)}

\* every device is a member of one group, and none of its sockets or peers has
\* closed or disconnected
GroupSettled ==
    /\ \E g \in DOMAIN groups : Range(groups[g].members) = {pid(d) : d \in Devices}
    /\ \A d \in Devices :
          srv[d] = "open" /\ ws[d] = "open" /\ peerConnected[d] = "true"

MeshComplete ==
    \A d \in Devices :
        live[d] /\ \A r \in Devices \ {d} : OpenWith(d, pid(r)) # {}

\* C7: once the member list has stopped changing (here: every device has joined
\* and stays), every member eventually has live = true and an open connection to
\* every other member
MeshCompleteness == <>[]GroupSettled => <>MeshComplete

\* C8: a device holds at most one open connection per remote peer id, inbound
\* and outbound counted together
AtMostOneOpenPerPeer ==
    \A d \in Devices, r \in Peers : Cardinality(OpenWith(d, r)) <= 1

\* the connections dialed between a and b, and those that a has dialed
Between(a, b) == {k \in ConnIds : {conn[k].from, conn[k].to} = {a, b}}
DialedBy(a, b) == {k \in ConnIds : conn[k].from = a /\ conn[k].to = b}

\* a and b are members of one group in the relay
StillMembers(a, b) ==
    \E g \in DOMAIN groups : {pid(a), pid(b)} \subseteq Range(groups[g].members)

\* C9: when two members have dialed each other, each inbound dial that has
\* arrived has been accepted, and while both are still members some connection
\* between them has been closed at neither end
DialRaceKeepsConnection ==
    \A a, b \in Devices :
        (a # b /\ DialedBy(a, b) # {} /\ DialedBy(b, a) # {} /\ StillMembers(a, b))
        => /\ \A k \in Between(a, b) :
                conn[k].eb # "none" => conn[k].listening
           /\ \E k \in Between(a, b) : conn[k].ea # "closed" /\ conn[k].eb # "closed"

\* two members have dialed each other while neither dial had opened, and both
\* connections are open at both ends
DialRaceWitness ==
    \E a, b \in Devices :
        /\ a # b
        /\ StillMembers(a, b)
        /\ \E k \in DialedBy(a, b) : conn[k].ea = "open" /\ conn[k].eb = "open"
        /\ \E k \in DialedBy(b, a) : conn[k].ea = "open" /\ conn[k].eb = "open"

\* C10: whenever live is true on a device, every other member of its GroupState
\* has a connection with it that is open
LiveImpliesOpen ==
    \A d \in Devices :
        live[d] => \A r \in Range(groupState[d].members) \ {pid(d)} : OpenWith(d, r) # {}

\* ---------------------------------------------------------------- clock claims

Promoted(d) ==
    /\ ~groupState[d].isGroupLeader
    /\ groupState[d].leader # None
    /\ groupState'[d].isGroupLeader

LeaderSamplesNoPeer ==
    \A d \in Devices :
        groupState[d].isGroupLeader =>
            /\ tsPeers[d] = <<>>
            /\ synced[d]
            /\ sampling[d].active => sampling[d].peers = <<>>

\* C15 as amended: a device that is the leader has an empty sampling peer set and
\* is synced, and every resample it starts while leader samples no peer
LeaderStartsNoSample ==
    /\ [](\A d \in Devices :
            groupState[d].isGroupLeader => tsPeers[d] = <<>> /\ synced[d])
    /\ [][\A d \in Devices :
            (/\ groupState'[d].isGroupLeader
             /\ ~sampling[d].active
             /\ sampling'[d].active) => sampling'[d].peers = <<>>]_vars

\* a leader's periodic tick has started a resample, and it samples nobody
LeaderTickWitness ==
    \E d \in Devices :
        /\ groupState[d].isGroupLeader
        /\ synced[d]
        /\ sampling[d].active
        /\ sampling[d].peers = <<>>

\* C16: the sampling peer set of a follower is exactly the leader its GroupState
\* names, from the step in which it processes that GroupState on
FollowerPeersAreLeader ==
    \A d \in Trio :
        ~groupState[d].isGroupLeader => tsPeers[d] = <<groupState[d].leader>>

\* after a leader migration a follower names the new leader: its leader is a
\* device that has itself resampled as a follower
FollowerOfPromotedWitness ==
    \E d \in Trio, r \in Trio :
        /\ d # r
        /\ \E s \in Trio \ {d, r} : srv[s] = "closed"
        /\ ~groupState[d].isGroupLeader
        /\ groupState[d].leader = pid(r)
        /\ tsPeers[d] = <<pid(r)>>
        /\ groupState[r].isGroupLeader
        /\ syncInterval[r]

\* C17: a follower that is connected and live again after its leader changed
\* has started a resample against that leader, without waiting for a tick
FollowerResamplesNewLeader ==
    \A d \in Trio :
        (/\ ~groupState[d].isGroupLeader
         /\ groupState[d].leader # None
         /\ connected(d) = "true"
         /\ live[d]) => sampled[d].peers = <<groupState[d].leader>>

\* C18: a resample is started only while the mesh reports live
ResampleOnlyWhenLive ==
    [][\A d \in Devices :
          (~sampling[d].active /\ sampling'[d].active) => live'[d]]_vars

\* a follower that is synced by an earlier round has a later round running,
\* started by a tick while live
TickResampleWitness ==
    \E d \in Devices :
        /\ ~groupState[d].isGroupLeader
        /\ synced[d]
        /\ syncInterval[d]
        /\ sampling[d].active
        /\ sampling[d].peers = <<groupState[d].leader>>
        /\ live[d]

\* C19: synced, once true, stays true, and a resample that ends without a valid
\* sample leaves the offset as it was
SyncedSticky ==
    [][\A d \in Devices :
          /\ synced[d] => synced'[d]
          /\ (/\ sampling[d].active
              /\ ~sampling'[d].active
              /\ sampled'[d].ended = "failed") => syncOffset'[d] = syncOffset[d]]_vars

\* a follower with a measured offset has had a later resample fail, and is
\* still synced with that offset
FailedResampleWitness ==
    \E d \in Devices :
        /\ synced[d]
        /\ syncOffset[d] # 0
        /\ ~sampling[d].active
        /\ sampled[d].ended = "failed"

\* C20: now() is the wall clock plus the offset of ClockState plus the manual
\* offset, synced or not
NowIsWallPlusOffsets ==
    \A d \in Devices : \A wallClock \in WallClocks :
        now(d, wallClock) = wallClock + syncOffset[d] + manualOffset[d]

\* a synced device with a measured offset and a device that is not synced have
\* both been given a manual offset
ManualOffsetWitness ==
    \E d \in Devices, e \in Devices :
        /\ synced[d] /\ syncOffset[d] # 0 /\ manualOffset[d] # 0
        /\ ~synced[e] /\ manualOffset[e] # 0
        /\ now(e, MaxWall) = MaxWall + manualOffset[e]

\* ---------------------------------------------------------------- playback claims

\* bpm, timeSignature and isPlaying of a state
Core(ms) == <<ms.bpm, ms.timeSignature, ms.isPlaying>>

\* the devices are in one group with a complete mesh, each has got its state,
\* and nothing is left to do: no message is in flight and no scheduler call is
\* pending
Quiescent ==
    /\ lastBroadcast # NoState
    /\ \A d \in Devices : live[d] /\ metronomeState[d] # NoState
    /\ \A l \in Links : chan[l] = <<>>
    /\ \A d \in Devices : ~audioPending[d]
    /\ \A d \in Devices :
          meshPeers(d, groupState, serverConnected, peerConnected) = Devices \ {d}

\* C1: with a reliable mesh, after any sequence of local edits, once all in-flight
\* messages are delivered every device's bpm, timeSignature and isPlaying are
\* those of the chronologically last broadcast
Convergence ==
    Quiescent => \A d \in Devices : Core(metronomeState[d]) = Core(lastBroadcast)

\* C11: every PlaybackState a device broadcasts carries a defined referenceTime or
\* has isPlaying false
BroadcastHasReferenceOrStopped ==
    lastBroadcast # NoState =>
        lastBroadcast.referenceTime # 0 \/ lastBroadcast.isPlaying = "false"

\* a playing state has been broadcast, and a peer has it in flight
PlayingBroadcastWitness ==
    /\ lastBroadcast.isPlaying = "true"
    /\ \E l \in Links : \E i \in DOMAIN chan[l] :
          /\ chan[l][i].method = "metronomeState"
          /\ chan[l][i].state = lastBroadcast

\* device l[2] has handled a metronomeState message of device l[1] in this step
HandlesState(l) ==
    /\ chan[l] # <<>>
    /\ Head(chan[l]).method = "metronomeState"
    /\ Len(chan'[l]) < Len(chan[l])

SendsRequest(l) ==
    /\ Len(chan'[l]) > Len(chan[l])
    /\ chan'[l][Len(chan'[l])].method = "requestInitialState"

LateJoinerGetsReference ==
    \A d \in Devices :
        (/\ lastReceived[d].before = NoState
         /\ lastReceived[d].state.isPlaying = "true")
            => lastReceived[d].state.referenceTime # 0

\* ---------------------------------------------------------------- relay loss
\* the relay connection of device d is lost and its GroupState names a group
RelayLost(d) ==
    /\ serverConnected'[d] = "false"
    /\ groupState'[d].members # <<>>

\* C21: when the relay connection of a device is lost its members are kept and
\* it is not connected; while it stays lost the device is not live, sends no
\* requestInitialState, and a device without playback state does not initialise
\* one of its own
RelayLossKeepsIdle ==
    [][\A d \in Devices :
          RelayLost(d) =>
              /\ groupState'[d] = groupState[d]
              /\ connectedOf(serverConnected'[d], peerConnected'[d]) = "false"
              /\ ~live'[d]
              /\ \A l \in Links : l[1] = d => ~SendsRequest(l)
              /\ (/\ metronomeState[d] = NoState
                  /\ ~\E l \in Links : l[2] = d /\ HandlesState(l))
                     => metronomeState'[d] = NoState]_vars

\* ---------------------------------------------------------------- register
\* socket s handles a register message that carries no group code
RegistersWithoutCode(s) ==
    /\ ~registered[s].done
    /\ registered'[s].done
    /\ registered'[s].groupCode = None

\* C22: a register message without a group code leaves a group, under the code
\* the socket is given, whose only member and leader is the registering peer,
\* and the peer is recorded as a member of that group
RegisterWithoutCodeCreates ==
    [][\A s \in Sockets :
          RegistersWithoutCode(s) =>
              LET peerId == sockPeerId'[s]
                  code == sockGroupCode'[s]
              IN /\ peerId \in Peers
                 /\ code \in DOMAIN groups'
                 /\ groups'[code] = [members |-> <<peerId>>, leader |-> peerId]
                 /\ memberToGroup'[peerId] = code
                 /\ clients'[peerId] = s]_vars

\* a peer that registered without a code leads a group of its own next to a
\* group that others have formed
CreatedGroupWitness ==
    \E s \in Sockets :
        /\ registered[s].done
        /\ registered[s].groupCode = None
        /\ sockGroupCode[s] \in DOMAIN groups
        /\ groups[sockGroupCode[s]] =
               [members |-> <<sockPeerId[s]>>, leader |-> sockPeerId[s]]
        /\ \E g \in DOMAIN groups : Len(groups[g].members) = 2

\* ---------------------------------------------------------------- send
\* the open connections the sender of the latest send() has with its target
OpenToTarget ==
    {k \in Range(pcs[sendOutcome.from]) :
        /\ connPeer(MeshState, k, sendOutcome.from) = sendOutcome.target
        /\ connOpen(MeshState, k, sendOutcome.from)}

\* C23: send to a target without an open connection fails and writes to no
\* connection; send to a target with an open connection writes to exactly one
\* connection, an open one with that target
SendOneOrNone ==
    sendOutcome # NoSend =>
        /\ OpenToTarget = {} => sendOutcome.error /\ sendOutcome.on = {}
        /\ OpenToTarget # {} =>
              /\ ~sendOutcome.error
              /\ Cardinality(sendOutcome.on) = 1
              /\ sendOutcome.on \subseteq OpenToTarget

\* a send to a target with which two connections are open has written to one
SendOfTwoWitness ==
    /\ sendOutcome # NoSend
    /\ Cardinality(OpenToTarget) = 2
    /\ Cardinality(sendOutcome.on) = 1

\* ---------------------------------------------------------------- failures
\* the initial-state $effect of follower d reruns because live has become true
\* and, finding no playback state, sends requestInitialState to its leader
RequestsOnLive(d) ==
    /\ ~live[d]
    /\ live'[d]
    /\ connectedOf(serverConnected'[d], peerConnected'[d]) = "true"
    /\ ~groupState'[d].isGroupLeader
    /\ metronomeState'[d] = NoState

\* C24: no failure of one component surfaces as an exception in another: the
\* send to the leader that the initial-state $effect of the playback state
\* provider makes when live becomes true does not throw
NoExceptionAcrossComponents ==
    [][\A d \in Devices :
          RequestsOnLive(d) =>
              ~send([conn |-> conn', pcs |-> pcs', avail |-> avail'],
                    d, groupState'[d].leader).error]_vars

\* ---------------------------------------------------------------- validation
VALID_BEAT_UNITS == {2, 4, 8, 16}

\* a state with a negative BPM or a beat unit that is not a valid one
Invalid(state) ==
    \/ state.bpm < 0
    \/ state.timeSignature # <<>> /\ state.timeSignature[2] \notin VALID_BEAT_UNITS

\* C25: a received state with an invalid beat unit or a negative BPM is dropped:
\* the replica of the receiving device is left as it was
InvalidStateDropped ==
    [][\A l \in Links :
          (HandlesState(l) /\ Invalid(Head(chan[l]).state))
              => metronomeState'[l[2]] = metronomeState[l[2]]]_vars

\* ---------------------------------------------------------------- reconnection
\* C26: after the relay connection of a device is lost a reconnection is
\* attempted: its websocket is connecting again
RelayLossRetried ==
    \A c \in Devices : (ws[c] = "closed") ~> (ws[c] = "connecting")

\* ---------------------------------------------------------------- timing claims
\* C27: the playhead position lies in [0, measureLengthSeconds), also when the
\* current time is before the reference time
PositionInMeasure ==
    timing.stage # "none" =>
        /\ 0 <= timing.transportSeconds
        /\ timing.transportSeconds < timing.measureLengthSeconds

\* what floating tolerance comes to at Precision bits: four times the spacing of
\* the numbers at the largest time
Tolerance == 4 * Ulp(4000 * Scale)

\* the current time lies in the first measure after the reference time, not
\* within the tolerance of its end
InFirstMeasure ==
    LET since == (timing.currentTime - timing.referenceTime)
                 + 1000 * timing.audioLatencySeconds
    IN 0 <= since /\ since + Tolerance < 1000 * timing.measureLengthSeconds

\* C28 as stated: feeding the position back into getReferenceTime at the same
\* current time reproduces the reference time to floating tolerance
RoundTripReproduces ==
    timing.stage = "reference" =>
        Abs(timing.back - timing.referenceTime) <= Tolerance

\* C28: feeding the position back into getReferenceTime at the same current
\* time gives the reference time moved by a whole number of measures, to
\* floating tolerance, and the reference time itself when the current time lies
\* in the first measure after it and not within the tolerance of its end
RoundTripUpToMeasures ==
    timing.stage = "reference" =>
        /\ \E k \in -MaxMeasures .. MaxMeasures :
              Abs(timing.back - (timing.referenceTime
                                 + k * 1000 * timing.measureLengthSeconds))
                  <= Tolerance
        /\ InFirstMeasure => Abs(timing.back - timing.referenceTime) <= Tolerance

\* a round trip more than a measure after the reference time has given a
\* reference time that is one measure later
ShiftedReferenceWitness ==
    /\ timing.stage = "reference"
    /\ timing.currentTime > timing.referenceTime + 1000 * timing.measureLengthSeconds
    /\ Abs(timing.back - (timing.referenceTime + 1000 * timing.measureLengthSeconds))
          <= Tolerance

\* ---------------------------------------------------------------- routing claims
\* C29 as stated: a message that has a result field goes to the timesync
\* subscribers whatever its method, and every other message to the subscribers
\* of the topic its method names
ResultRoutedToClock ==
    routed.from # None =>
        IF routed.hasResult
        THEN routed.topic = "timesync" /\ routed.notified = routed.known["timesync"]
        ELSE routed.topic = routed.method

\* C29: a message with a method goes to the subscribers of the topic its method
\* names, with or without a result field, and fails when the method names no
\* topic; a message without a method goes to the timesync subscribers when it
\* has a result field and to nobody otherwise
RoutedByMethodFirst ==
    routed.from # None =>
        /\ routed.method \in Topics =>
              /\ routed.topic = routed.method
              /\ ~routed.error
              /\ routed.notified = routed.known[routed.method]
        /\ routed.method = "unknown" => routed.error /\ routed.notified = {}
        /\ (routed.method = "none" /\ routed.hasResult) =>
              /\ routed.topic = "timesync"
              /\ routed.notified = routed.known["timesync"]
              /\ ~routed.error
        /\ (routed.method = "none" /\ ~routed.hasResult) =>
              routed.notified = {} /\ ~routed.error

\* a message with both a method and a result field has gone to the subscriber
\* of its method
MethodAndResultWitness ==
    /\ routed.from # None
    /\ routed.method = "metronomeState"
    /\ routed.hasResult
    /\ routed.notified = {"stateHandler"}

\* ---------------------------------------------------------------- scheduler claims
\* C30: a device whose state is playing without a reference time eventually
\* has a reference time in its state (or is no longer playing)
ReferenceTimeEventuallyWritten ==
    \A d \in Devices :
        (metronomeState[d].isPlaying = "true" /\ metronomeState[d].referenceTime = 0)
            ~> (metronomeState[d].isPlaying # "true"
                \/ metronomeState[d].referenceTime # 0)

\* ---------------------------------------------------------------- broadcast claims
\* device d handles the state message at the head of link l in this step
HandlesStateOn(l) ==
    /\ chan[l] # <<>>
    /\ Head(chan[l]).method = "metronomeState"
    /\ chan'[l] = Tail(chan[l])

\* device d handles a request for the initial state in this step
HandlesRequest(d) ==
    \E r \in Devices \ {d} :
        /\ chan[<<r, d>>] # <<>>
        /\ Head(chan[<<r, d>>]).method = "requestInitialState"
        /\ chan'[<<r, d>>] = Tail(chan[<<r, d>>])

\* the state messages device d puts on its links in this step
StatesSentBy(d) ==
    {chan'[<<d, r>>][Len(chan'[<<d, r>>])].state :
        r \in {x \in Devices \ {d} :
                  /\ Len(chan'[<<d, x>>]) = Len(chan[<<d, x>>]) + 1
                  /\ chan'[<<d, x>>][Len(chan'[<<d, x>>])].method = "metronomeState"}}

OpenAt(d, target) ==
    {k \in Range(pcs[d]) : connPeer(MeshState, k, d) = target /\ connOpen(MeshState, k, d)}
InFlight(d, target) ==
    {k \in Range(pcs[d]) : conn[k].from = d /\ conn[k].to = target /\ conn[k].ea = "new"}

\* C32: a device dials a member only when it has no open connection and no dial
\* in flight to that member, and never dials itself
DialsOnlyWhenUnconnected ==
    [][\A d \in Devices : \A k \in ConnIds :
          (conn[k].from = None /\ conn'[k].from = d)
          => /\ conn'[k].to # pid(d)
             /\ OpenAt(d, conn'[k].to) = {}
             /\ InFlight(d, conn'[k].to) = {}]_vars

\* the mesh after the step
MeshStateAfter == [conn |-> conn', pcs |-> pcs', avail |-> avail']

\* the reconcile $effect of device d runs syncConnections in this step: Status
\* has become connected, or a GroupState was assigned while connected
Reconciles(d) ==
    LET before == connected(d)
        after == connectedOf(serverConnected'[d], peerConnected'[d])
        assigned == inbox[d] # <<>> /\ inbox'[d] = Tail(inbox[d])
    IN after = "true" /\ (after # before \/ assigned)

\* C33: after syncConnections has run, the device has no open connection with a
\* peer outside members, and every connection with a member that was open
\* before is still open
ReconcileClosesExactly ==
    [][\A d \in Devices :
          Reconciles(d) =>
             /\ \A k \in Range(pcs'[d]) :
                   connOpen(MeshStateAfter, k, d)
                   => connPeer(MeshStateAfter, k, d) \in Range(groupState'[d].members)
             /\ \A k \in Range(pcs[d]) :
                   (/\ connOpen(MeshState, k, d)
                    /\ connPeer(MeshState, k, d) \in Range(groupState'[d].members))
                   => connOpen(MeshStateAfter, k, d)]_vars

\* a connected device has closed its end of a connection whose other end is
\* still open, with a peer that is no longer in its members
ClosedByReconcileWitness ==
    \E d \in Devices, k \in ConnIds :
        /\ connected(d) = "true"
        /\ d \in {conn[k].from, conn[k].to}
        /\ connPeer(MeshState, k, d) \notin Range(groupState[d].members)
        /\ IF conn[k].from = d
           THEN conn[k].ea = "closed" /\ conn[k].eb = "open"
           ELSE conn[k].eb = "closed" /\ conn[k].ea = "open"

\* ---------------------------------------------------------------- dispatch claims
\* C34: the connection a send() has written to has the data listener of
\* setupConnectionListeners at the end held by the target, so that the message
\* is passed to notify() there
SentIsDispatched ==
    (sendOutcome # NoSend /\ ~sendOutcome.error)
    => \A k \in sendOutcome.on : hasListeners(MeshState, k, sendOutcome.target)

\* ---------------------------------------------------------------- default state claims
\* the initial-state $effect gives device b the default state in this step
InitializesDefault(b) ==
    /\ metronomeState[b] = NoState
    /\ metronomeState'[b] = DefaultState

\* C35: the step in which a device initialises the default state puts no state
\* message on its link to a member that already holds another state
DefaultInitKeepsOthers ==
    [][\A b \in Devices : \A r \in Devices \ {b} :
          (/\ InitializesDefault(b)
           /\ metronomeState[r] \notin {NoState, DefaultState})
          => chan'[<<b, r>>] = chan[<<b, r>>]]_vars

\* ---------------------------------------------------------------- resample claims
\* device d is a follower of a leader, connected, with a live mesh
LiveFollower(d) ==
    /\ connected(d) = "true"
    /\ live[d]
    /\ ~groupState[d].isGroupLeader
    /\ groupState[d].leader # None

\* C36: a follower that is connected and whose mesh is live becomes synced
\* (unless it stops being such a follower first)
LiveFollowerSyncs ==
    \A d \in Devices : LiveFollower(d) ~> (synced[d] \/ ~LiveFollower(d))

\* ---------------------------------------------------------------- registration claims
\* socket s delivers a close or error event after its peer has registered again
\* over another socket, which is open
StaleSocketEnds(s) ==
    /\ srv[s] \in {"open", "errored"}
    /\ srv'[s] # srv[s]
    /\ sockPeerId[s] \in DOMAIN clients
    /\ clients[sockPeerId[s]] # s
    /\ srv[clients[sockPeerId[s]]] = "open"

\* C37: the close or error of a socket that is not its peer's current
\* registration leaves the groups, memberToGroup and clients as they were
StaleCloseKeepsPeer ==
    [][\A s \in Sockets :
          StaleSocketEnds(s)
          => /\ groups' = groups
             /\ memberToGroup' = memberToGroup
             /\ clients' = clients]_vars

\* the groups that have peer p in their members
GroupsOf(p) == {g \in DOMAIN groups : p \in Range(groups[g].members)}

\* C38: every peer is a member of at most one group, and memberToGroup maps a
\* peer to a group exactly when the peer is in the members of that group
MembershipConsistent ==
    \A p \in Peers :
        /\ Cardinality(GroupsOf(p)) <= 1
        /\ \A g \in Codes :
              (p \in DOMAIN memberToGroup /\ memberToGroup[p] = g) <=> g \in GroupsOf(p)

\* C39: a register message without a group code leaves every group that
\* existed before it with the members and the leader it had
RegisterWithoutCodeKeepsGroups ==
    [][\A s \in Sockets :
          RegistersWithoutCode(s) =>
              \A g \in DOMAIN groups :
                  g \in DOMAIN groups' /\ groups'[g] = groups[g]]_vars

====
